---------------------------- MODULE Spec2Model ----------------------------
(***************************************************************************)
(* A model of the event schema codec of opensea-stream (src/src/schema.rs) *)
(* and of the subscription protocol types (src/src/protocol.rs).           *)
(*                                                                         *)
(* Text is a sequence of one-character strings, so that splitting,         *)
(* prefix stripping and digit parsing are computed character by character. *)
(* A 256-bit unsigned integer is a sequence of NLimbs limbs in base        *)
(* LimbBase, least significant first, which keeps every intermediate       *)
(* product inside TLC's integers while the width stays exactly 256 bits.   *)
(***************************************************************************)
EXTENDS Integers, Sequences, FiniteSets, TLC

(***************************************************************************)
(* Results: Result<T, E>.  A failure carries the set of errors the call    *)
(* may report; a leaf codec reports exactly one.                           *)
(***************************************************************************)
Ok(v) == [ok |-> TRUE, val |-> v]

Err(kind) == [ok |-> FALSE, errs |-> {[kind |-> kind, field |-> ""]}]

MissingField(name) == [ok |-> FALSE, errs |-> {[kind |-> "missing field", field |-> name]}]

ErrAny(es) == [ok |-> FALSE, errs |-> es]

(***************************************************************************)
(* Text helpers.                                                           *)
(***************************************************************************)
Digits == <<"0", "1", "2", "3", "4", "5", "6", "7", "8", "9">>

LowerHexDigits ==
    <<"0", "1", "2", "3", "4", "5", "6", "7", "8", "9", "a", "b", "c", "d", "e", "f">>

UpperHexDigits ==
    <<"0", "1", "2", "3", "4", "5", "6", "7", "8", "9", "A", "B", "C", "D", "E", "F">>

Drop(s, n) == SubSeq(s, n + 1, Len(s))

Take(s, n) == SubSeq(s, 1, n)

StartsWith(s, p) == Len(s) >= Len(p) /\ Take(s, Len(p)) = p

\* str::strip_prefix: the remainder after p, or None.
StripPrefix(s, p) == IF StartsWith(s, p) THEN Ok(Drop(s, Len(p))) ELSE Err("no prefix")

\* The position of the first occurrence of c in s, or 0.
FirstIndexOf(s, c) ==
    IF \E i \in 1..Len(s) : s[i] = c
    THEN CHOOSE i \in 1..Len(s) : s[i] = c /\ \A j \in 1..(i - 1) : s[j] # c
    ELSE 0

\* str::splitn(n, c): at most n parts, split at the first n - 1 occurrences
\* of c; the last part is the whole remainder.
RECURSIVE SplitN(_, _, _)
SplitN(s, n, c) ==
    IF n = 0 THEN <<>>
    ELSE IF n = 1 \/ FirstIndexOf(s, c) = 0 THEN <<s>>
    ELSE LET i == FirstIndexOf(s, c)
         IN  <<Take(s, i - 1)>> \o SplitN(Drop(s, i), n - 1, c)

(***************************************************************************)
(* U256 (ethers::prelude::U256): 256 bits as NLimbs limbs of LimbBits.     *)
(***************************************************************************)
LimbBits == 4 * 4

NLimbs == 256 \div LimbBits

LimbBase == 2 ^ LimbBits

U256Zero == [i \in 1..NLimbs |-> 0]

U256IsZero(x) == \A i \in 1..NLimbs : x[i] = 0

\* U256::from(n) for a small n.
U256From(n) == [i \in 1..NLimbs |-> (n \div (LimbBase ^ (IF i <= 2 THEN i - 1 ELSE 0))) % LimbBase * (IF i <= 2 THEN 1 ELSE 0)]

\* overflowing_mul_u64(m) for a small m: the low 256 bits and the carry out.
RECURSIVE MulLimbs(_, _, _, _)
MulLimbs(x, m, i, carry) ==
    IF i > NLimbs THEN [val |-> x, carry |-> carry]
    ELSE LET cur == x[i] * m + carry
         IN  MulLimbs([x EXCEPT ![i] = cur % LimbBase], m, i + 1, cur \div LimbBase)

overflowing_mul_u64(x, m) == MulLimbs(x, m, 1, 0)

\* overflowing_add(d) for a small d: the low 256 bits and the overflow flag.
RECURSIVE AddLimbs(_, _, _)
AddLimbs(x, i, carry) ==
    IF i > NLimbs THEN [val |-> x, overflow |-> carry > 0]
    ELSE IF carry = 0 THEN [val |-> x, overflow |-> FALSE]
    ELSE LET cur == x[i] + carry
         IN  AddLimbs([x EXCEPT ![i] = cur % LimbBase], i + 1, cur \div LimbBase)

overflowing_add(x, d) == AddLimbs(x, 1, d)

\* x divided by a small d: quotient and remainder, from the top limb down.
RECURSIVE DivLimbs(_, _, _, _)
DivLimbs(x, d, i, rem) ==
    IF i = 0 THEN [quot |-> x, rem |-> rem]
    ELSE LET cur == rem * LimbBase + x[i]
         IN  DivLimbs([x EXCEPT ![i] = cur \div d], d, i - 1, cur % d)

div_mod_small(x, d) == DivLimbs(x, d, NLimbs, 0)

\* b.wrapping_sub(b'0'): the digit's value, or a value above 9.
DigitValue(c) ==
    IF c \in {"0", "1", "2", "3", "4", "5", "6", "7", "8", "9"}
    THEN CHOOSE d \in 0..9 : Digits[d + 1] = c
    ELSE 10

\* One round of from_dec_str's loop on digit byte c: the byte must be a
\* digit, and neither the multiplication by ten nor the addition of the
\* digit may overflow.
FromDecStep(res, c) ==
    LET m == overflowing_mul_u64(res, 10)
        a == overflowing_add(m.val, DigitValue(c))
    IN  IF DigitValue(c) > 9 THEN Err("InvalidCharacter")
        ELSE IF m.carry > 0 \/ a.overflow THEN Err("InvalidLength")
        ELSE Ok(a.val)

\* U256::from_dec_str: the loop over the bytes of value, leaving at the
\* first error.  The loop body never runs on the empty string, which
\* therefore yields zero.
RECURSIVE FromDecLoop(_, _, _)
FromDecLoop(value, i, res) ==
    IF i > Len(value) \/ ~res.ok THEN res
    ELSE FromDecLoop(value, i + 1, FromDecStep(res.val, value[i]))

U256_from_dec_str(value) == FromDecLoop(value, 1, Ok(U256Zero))

\* One round of Display's loop: the last digit of current goes in front of
\* the buffer and current is divided by ten.
ToDecStep(st) ==
    LET qr == div_mod_small(st.current, 10)
    IN  [current |-> qr.quot, buf |-> <<Digits[qr.rem + 1]>> \o st.buf]

\* Display's loop: rounds until nothing is left of current.
RECURSIVE ToDecLoop(_)
ToDecLoop(st) ==
    IF U256IsZero(st.current) THEN st.buf ELSE ToDecLoop(ToDecStep(st))

\* A faulty Display for U256 that leaves out the case of zero and so writes
\* no digit for it.
U256_to_string_no_zero_case(x) == ToDecLoop([current |-> x, buf |-> <<>>])

\* impl Display for U256: "0" for zero, else the decimal digits, most
\* significant first, produced by repeated division by ten.
U256_to_string(x) ==
    IF U256IsZero(x) THEN <<"0">> ELSE ToDecLoop([current |-> x, buf |-> <<>>])

(***************************************************************************)
(* Fixed-size byte strings (ethers Address = H160, H256) and hexadecimal.  *)
(***************************************************************************)
AddressBytes == 20

H256Bytes == 32

Txt_0x == <<"0", "x">>

\* The value of a hexadecimal digit of either case, or 16 for another
\* character.
HexValue(c) ==
    CASE c \in {"0", "1", "2", "3", "4", "5", "6", "7", "8", "9"} ->
             CHOOSE d \in 0..9 : Digits[d + 1] = c
      [] c \in {"a", "b", "c", "d", "e", "f"} -> CHOOSE d \in 10..15 : LowerHexDigits[d + 1] = c
      [] c \in {"A", "B", "C", "D", "E", "F"} -> CHOOSE d \in 10..15 : UpperHexDigits[d + 1] = c
      [] OTHER -> 16

\* The bytes of an even-length text of hexadecimal digits.
RECURSIVE HexToBytes(_)
HexToBytes(h) ==
    IF Len(h) < 2 THEN <<>>
    ELSE <<16 * HexValue(h[1]) + HexValue(h[2])>> \o HexToBytes(Drop(h, 2))

\* impl LowerHex, two lowercase digits a byte.
RECURSIVE BytesToHex(_)
BytesToHex(bytes) ==
    IF bytes = <<>> THEN <<>>
    ELSE <<LowerHexDigits[(bytes[1] \div 16) + 1], LowerHexDigits[(bytes[1] % 16) + 1]>>
         \o BytesToHex(Tail(bytes))

\* impl FromStr for a fixed hash of n bytes (Address::from_str): an optional
\* "0x" is stripped, then the digits are read in pairs, one pair a byte.  The
\* scan stops at the first character that is no hexadecimal digit; input
\* that ends before n bytes are read, or goes on after them, has an invalid
\* length.
FixedHash_from_str(input, n) ==
    LET h == IF StartsWith(input, Txt_0x) THEN Drop(input, 2) ELSE input
        scanned == IF Len(h) < 2 * n THEN Len(h) ELSE 2 * n
    IN  IF \E i \in 1..scanned : HexValue(h[i]) = 16 THEN Err("InvalidHexCharacter")
        ELSE IF Len(h) # 2 * n THEN Err("InvalidHexLength")
        ELSE Ok(HexToBytes(h))

Address_from_str(input) == FixedHash_from_str(input, AddressBytes)

\* impl Debug for a fixed hash ({:?}): "0x" and every byte in lowercase
\* hexadecimal.
FixedHash_debug(bytes) == Txt_0x \o BytesToHex(bytes)

\* impl Display for a fixed hash ({}): "0x", the first two bytes, an
\* ellipsis and the last two bytes.
FixedHash_display(bytes) ==
    Txt_0x \o BytesToHex(Take(bytes, 2)) \o <<"...">> \o BytesToHex(Drop(bytes, Len(bytes) - 2))

(***************************************************************************)
(* Chain: the closed set of networks and their wire names.                 *)
(***************************************************************************)
Txt_ethereum == <<"e", "t", "h", "e", "r", "e", "u", "m">>

Txt_matic == <<"m", "a", "t", "i", "c">>

Txt_klaytn == <<"k", "l", "a", "y", "t", "n">>

Txt_solana == <<"s", "o", "l", "a", "n", "a">>

Txt_rinkeby == <<"r", "i", "n", "k", "e", "b", "y">>

Txt_mumbai == <<"m", "u", "m", "b", "a", "i">>

Txt_baobab == <<"b", "a", "o", "b", "a", "b">>

Chains == {"Ethereum", "Polygon", "Klaytn", "Solana", "Rinkeby", "Mumbai", "Baobab"}

\* A faulty FromStr for Chain that also reads Polygon by its variant name.
Chain_from_str_polygon(s) ==
    CASE s = Txt_ethereum -> Ok("Ethereum")
      [] s \in {Txt_matic, <<"p", "o", "l", "y", "g", "o", "n">>} -> Ok("Polygon")
      [] s = Txt_klaytn -> Ok("Klaytn")
      [] s = Txt_solana -> Ok("Solana")
      [] s = Txt_rinkeby -> Ok("Rinkeby")
      [] s = Txt_mumbai -> Ok("Mumbai")
      [] s = Txt_baobab -> Ok("Baobab")
      [] OTHER -> Err("unknown chain")

\* impl FromStr for Chain: an exact match of the whole text.
Chain_from_str(s) ==
    CASE s = Txt_ethereum -> Ok("Ethereum")
      [] s = Txt_matic -> Ok("Polygon")
      [] s = Txt_klaytn -> Ok("Klaytn")
      [] s = Txt_solana -> Ok("Solana")
      [] s = Txt_rinkeby -> Ok("Rinkeby")
      [] s = Txt_mumbai -> Ok("Mumbai")
      [] s = Txt_baobab -> Ok("Baobab")
      [] OTHER -> Err("unknown chain")

\* A faulty Display for Chain that writes Ethereum by its variant name.
Chain_fmt_variant_name(c) ==
    CASE c = "Ethereum" -> <<"E", "t", "h", "e", "r", "e", "u", "m">>
      [] c = "Polygon" -> Txt_matic
      [] c = "Klaytn" -> Txt_klaytn
      [] c = "Solana" -> Txt_solana
      [] c = "Rinkeby" -> Txt_rinkeby
      [] c = "Mumbai" -> Txt_mumbai
      [] c = "Baobab" -> Txt_baobab

\* impl Display for Chain.
Chain_fmt(c) ==
    CASE c = "Ethereum" -> Txt_ethereum
      [] c = "Polygon" -> Txt_matic
      [] c = "Klaytn" -> Txt_klaytn
      [] c = "Solana" -> Txt_solana
      [] c = "Rinkeby" -> Txt_rinkeby
      [] c = "Mumbai" -> Txt_mumbai
      [] c = "Baobab" -> Txt_baobab

(***************************************************************************)
(* JSON values, each a record of one field named after its kind.  An       *)
(* object is a function from its keys to values; a number is kept as its   *)
(* numeral.                                                                *)
(***************************************************************************)
JNull == [null |-> TRUE]

JStr(s) == [str |-> s]

JNum(numeral) == [num |-> numeral]

JBool(b) == [bool |-> b]

JArr(a) == [arr |-> a]

JObj(f) == [obj |-> f]

\* The kind of a JSON value: the one key of its record.
Kind(j) == CHOOSE k \in DOMAIN j : TRUE

HasKey(j, k) == Kind(j) = "obj" /\ k \in DOMAIN j.obj

\* Option<T>.
None == [some |-> FALSE]

Some(v) == [some |-> TRUE, val |-> v]

(***************************************************************************)
(* NftId: "<chain>/<address>/<token id>" in one JSON string.               *)
(***************************************************************************)
\* impl Serialize for NftId: format!("{}/{:?}/{}", network, address, id).
NftId_serialize(n) ==
    JStr(Chain_fmt(n.network) \o <<"/">> \o FixedHash_debug(n.address) \o <<"/">>
         \o U256_to_string(n.id))

\* A faulty Deserialize for NftId that parses the address before the
\* network.
NftId_deserialize_address_first(j) ==
    IF Kind(j) # "str" THEN Err("invalid type")
    ELSE LET parts == SplitN(j.str, 3, "/")
             network == Chain_from_str(parts[1])
             address == Address_from_str(parts[2])
             id == U256_from_dec_str(parts[3])
         IN  IF Len(parts) < 2 THEN Err("expected address")
             ELSE IF ~address.ok THEN address
             ELSE IF ~network.ok THEN Err("invalid network")
             ELSE IF Len(parts) < 3 THEN Err("expected id")
             ELSE IF ~id.ok THEN id
             ELSE Ok([network |-> network.val, address |-> address.val, id |-> id.val])

\* A faulty Deserialize for NftId that splits at every '/' and reads the
\* third part.
NftId_deserialize_split_all(j) ==
    IF Kind(j) # "str" THEN Err("invalid type")
    ELSE LET parts == SplitN(j.str, Len(j.str) + 1, "/")
             network == Chain_from_str(parts[1])
             address == Address_from_str(parts[2])
             id == U256_from_dec_str(parts[3])
         IN  IF ~network.ok THEN Err("invalid network")
             ELSE IF Len(parts) < 2 THEN Err("expected address")
             ELSE IF ~address.ok THEN address
             ELSE IF Len(parts) < 3 THEN Err("expected id")
             ELSE IF ~id.ok THEN id
             ELSE Ok([network |-> network.val, address |-> address.val, id |-> id.val])

\* impl Deserialize for NftId: the string is split at its first two '/' and
\* the parts are parsed in order, the first failure being the error.
NftId_deserialize(j) ==
    IF Kind(j) # "str" THEN Err("invalid type")
    ELSE LET parts == SplitN(j.str, 3, "/")
             network == Chain_from_str(parts[1])
             address == Address_from_str(parts[2])
             id == U256_from_dec_str(parts[3])
         IN  IF ~network.ok THEN Err("invalid network")
             ELSE IF Len(parts) < 2 THEN Err("expected address")
             ELSE IF ~address.ok THEN address
             ELSE IF Len(parts) < 3 THEN Err("expected id")
             ELSE IF ~id.ok THEN id
             ELSE Ok([network |-> network.val, address |-> address.val, id |-> id.val])

\* event_schemas.rs, impl Serialize for NftId:
\* format!("{}/{}/{}", network, address.0, id), the address by Display.
event_schemas_NftId_serialize(n) ==
    JStr(Chain_fmt(n.network) \o <<"/">> \o FixedHash_display(n.address) \o <<"/">>
         \o U256_to_string(n.id))

\* event_schemas.rs, impl Deserialize for NftId: the same steps as in
\* schema.rs, on a borrowed string.
event_schemas_NftId_deserialize(j) == NftId_deserialize(j)

(***************************************************************************)
(* Leaf codecs of the JSON layer.                                          *)
(***************************************************************************)
\* The first position of s that holds no "0", or Len(s) + 1.
FirstNonZero(s) ==
    IF \A i \in 1..Len(s) : s[i] = "0" THEN Len(s) + 1
    ELSE CHOOSE i \in 1..Len(s) : s[i] # "0" /\ \A j \in 1..(i - 1) : s[j] = "0"

\* The last position of s that holds no "0", or 0.
LastNonZero(s) ==
    IF \A i \in 1..Len(s) : s[i] = "0" THEN 0
    ELSE CHOOSE i \in 1..Len(s) : s[i] # "0" /\ \A j \in (i + 1)..Len(s) : s[j] = "0"

IsDigits(s) == \A i \in 1..Len(s) : DigitValue(s[i]) <= 9

RECURSIVE DigitsToNat(_)
DigitsToNat(s) ==
    IF s = <<>> THEN 0 ELSE 10 * DigitsToNat(Take(s, Len(s) - 1)) + DigitValue(s[Len(s)])

RECURSIVE NatToDigits(_)
NatToDigits(n) ==
    IF n < 10 THEN <<Digits[n + 1]>> ELSE NatToDigits(n \div 10) \o <<Digits[(n % 10) + 1]>>

\* u64 from a JSON number: a numeral of digits only (no sign, no fraction).
u64_deserialize(j) ==
    IF Kind(j) # "num" THEN Err("invalid type")
    ELSE IF j.num = <<>> \/ ~IsDigits(j.num) THEN Err("invalid type")
    ELSE Ok(DigitsToNat(j.num))

u64_serialize(n) == JNum(NatToDigits(n))

bool_deserialize(j) == IF Kind(j) # "bool" THEN Err("invalid type") ELSE Ok(j.bool)

bool_serialize(b) == JBool(b)

String_deserialize(j) == IF Kind(j) # "str" THEN Err("invalid type") ELSE Ok(j.str)

String_serialize(s) == JStr(s)

\* A 64-bit float is kept as the decimal numeral that names it: a sign, the
\* integer digits without leading zeros and the fraction digits without
\* trailing zeros.  str::parse::<f64> on a numeral of an optional sign,
\* digits and at most one point (at least one digit in all).
f64_parse(s) ==
    LET signed == s # <<>> /\ s[1] \in {"+", "-"}
        body == IF signed THEN Drop(s, 1) ELSE s
        dot == FirstIndexOf(body, ".")
        ip == IF dot = 0 THEN body ELSE Take(body, dot - 1)
        fp == IF dot = 0 THEN <<>> ELSE Drop(body, dot)
    IN  IF ~IsDigits(ip) \/ ~IsDigits(fp) \/ (ip = <<>> /\ fp = <<>>) THEN Err("invalid float literal")
        ELSE Ok([neg |-> signed /\ s[1] = "-",
                 int |-> IF FirstNonZero(ip) > Len(ip) THEN <<"0">> ELSE Drop(ip, FirstNonZero(ip) - 1),
                 frac |-> Take(fp, LastNonZero(fp))])

\* impl Display for f64: the shortest numeral that reads back as the value,
\* without exponent, and without fraction when the value is an integer.
f64_to_string(x) ==
    (IF x.neg THEN <<"-">> ELSE <<>>) \o x.int \o (IF x.frac = <<>> THEN <<>> ELSE <<".">> \o x.frac)

\* f64_fromstring::deserialize: the untagged StringFloat takes a string,
\* which is then parsed, or a number.
f64_fromstring_deserialize(j) ==
    IF Kind(j) = "str" THEN f64_parse(j.str)
    ELSE IF Kind(j) = "num" THEN f64_parse(j.num)
    ELSE Err("data did not match any variant of untagged enum StringFloat")

\* A faulty f64_fromstring::serialize that writes the value as a number.
f64_fromstring_serialize_number(x) == JNum(f64_to_string(x))

\* f64_fromstring::serialize: value.to_string() as a JSON string.
f64_fromstring_serialize(x) == JStr(f64_to_string(x))

\* A faulty u256_fromstr_radix_10::deserialize that unwraps what
\* from_dec_str returns.
u256_fromstr_radix_10_deserialize_unwrap(j) ==
    IF Kind(j) # "str" THEN Err("invalid type")
    ELSE IF U256_from_dec_str(j.str).ok THEN U256_from_dec_str(j.str)
    ELSE Err("panic")

\* u256_fromstr_radix_10::deserialize: deserialize_str with a visitor that
\* accepts a string only and parses it with U256::from_dec_str.
u256_fromstr_radix_10_deserialize(j) ==
    IF Kind(j) # "str" THEN Err("invalid type") ELSE U256_from_dec_str(j.str)

\* u256_fromstr_radix_10::serialize: collect_str of Display.
u256_fromstr_radix_10_serialize(x) == JStr(U256_to_string(x))

\* Deserialize for a fixed hash of n bytes: a string of exactly 2 n
\* hexadecimal digits of either case after the "0x".
FixedHash_deserialize(j, n) ==
    IF Kind(j) # "str" THEN Err("invalid type")
    ELSE LET h == IF StartsWith(j.str, Txt_0x) THEN Drop(j.str, 2) ELSE j.str
         IN  IF Len(h) # 2 * n THEN Err("invalid length")
             ELSE IF \E i \in 1..Len(h) : HexValue(h[i]) = 16 THEN Err("invalid hex character")
             ELSE Ok(HexToBytes(h))

\* Serialize for a fixed hash: "0x" and the lowercase digits.
FixedHash_serialize(bytes) == JStr(Txt_0x \o BytesToHex(bytes))

\* DateTime<Utc> reads an RFC 3339 text and writes it back in UTC with "Z".
\* A text is <<date-time, offset>> or <<date-time, fraction, offset>>; only
\* zero fractions and zero offsets are drawn, so the instant is the
\* date-time part.
DateTime_deserialize(j) ==
    IF Kind(j) # "str" THEN Err("invalid type")
    ELSE IF Len(j.str) = 2 /\ j.str[1] \in {"2022-06-01T12:00:00", "2022-06-02T08:30:00"}
            /\ j.str[2] \in {"Z", "+00:00"} THEN Ok(j.str[1])
    ELSE IF Len(j.str) = 3 /\ j.str[1] \in {"2022-06-01T12:00:00", "2022-06-02T08:30:00"}
            /\ j.str[2] = ".000000" /\ j.str[3] \in {"Z", "+00:00"} THEN Ok(j.str[1])
    ELSE Err("invalid date-time")

\* A faulty DateTime encoder that writes the offset of UTC in numbers.
DateTime_serialize_offset(d) == JStr(<<d, "+00:00">>)

DateTime_serialize(d) == JStr(<<d, "Z">>)

\* Url reads an absolute URL and writes its normalised text: the scheme and
\* the host in lowercase.  A text is <<scheme, host, path>>.
Url_deserialize(j) ==
    IF Kind(j) # "str" THEN Err("invalid type")
    ELSE IF Len(j.str) = 3 /\ j.str[1] \in {"https://", "HTTPS://"}
            /\ j.str[2] \in {"opensea.io", "OpenSea.io"} /\ j.str[3] \in {"/a", "/b"}
         THEN Ok(<<"https://", "opensea.io", j.str[3]>>)
    ELSE Err("relative URL without a base")

Url_serialize(u) == JStr(u)

Txt_english == <<"e", "n", "g", "l", "i", "s", "h">>

Txt_dutch == <<"d", "u", "t", "c", "h">>

\* ListingType, rename_all = "lowercase".
ListingType_deserialize(j) ==
    IF Kind(j) # "str" THEN Err("invalid type")
    ELSE IF j.str = Txt_english THEN Ok("English")
    ELSE IF j.str = Txt_dutch THEN Ok("Dutch")
    ELSE Err("unknown variant")

ListingType_serialize(l) == JStr(IF l = "English" THEN Txt_english ELSE Txt_dutch)

\* Chain as a JSON value, tag = "name", rename_all = "lowercase" with
\* Polygon renamed to "matic": an object whose "name" is the wire name.
Chain_deserialize(j) ==
    IF Kind(j) # "obj" THEN Err("invalid type")
    ELSE IF ~HasKey(j, "name") THEN MissingField("name")
    ELSE IF Kind(j.obj.name) # "str" THEN Err("invalid type")
    ELSE IF ~Chain_from_str(j.obj.name.str).ok THEN Err("unknown variant")
    ELSE Chain_from_str(j.obj.name.str)

Chain_serialize(c) == JObj([name |-> JStr(Chain_fmt(c))])

\* traits: Vec<serde_json::Value>, the elements kept as they are.
VecValue_deserialize(j) == IF Kind(j) # "arr" THEN Err("invalid type") ELSE Ok(j.arr)

VecValue_serialize(a) == JArr(a)

(***************************************************************************)
(* The records of schema.rs as field tables: the name of each field, its   *)
(* type or `with` module, whether it is an Option, what a missing key      *)
(* gives (an error, None for an Option, Default for serde(default)) and    *)
(* whether the field is flattened into the enclosing object.               *)
(***************************************************************************)
Field(name, ty) ==
    [name |-> name, ty |-> ty, opt |-> FALSE, missing |-> "error", flatten |-> FALSE]

\* A faulty Option field whose key must be present.
OptionField_required(name, ty) ==
    [name |-> name, ty |-> ty, opt |-> TRUE, missing |-> "error", flatten |-> FALSE]

OptionField(name, ty) ==
    [name |-> name, ty |-> ty, opt |-> TRUE, missing |-> "none", flatten |-> FALSE]

DefaultField(name, ty) ==
    [name |-> name, ty |-> ty, opt |-> FALSE, missing |-> "default", flatten |-> FALSE]

FlattenField(name, ty) ==
    [name |-> name, ty |-> ty, opt |-> FALSE, missing |-> "error", flatten |-> TRUE]

\* A faulty envelope that reads the key "ref" as a field of its own.
StreamEventFields_with_ref ==
    <<Field("sent_at", "DateTime"), Field("ref", "String"), FlattenField("payload", "Payload")>>

StreamEventFields == <<Field("sent_at", "DateTime"), FlattenField("payload", "Payload")>>

ContextFields == <<Field("collection", "Collection"), Field("item", "Item")>>

CollectionInnerFields == <<Field("slug", "String")>>

ItemFields ==
    <<Field("nft_id", "NftId"), Field("permalink", "Url"), Field("chain", "Chain"),
      Field("metadata", "Metadata")>>

MetadataFields ==
    <<OptionField("name", "String"), OptionField("description", "String"),
      OptionField("image_url", "Url"), OptionField("animation_url", "Url"),
      OptionField("metadata_url", "Url")>>

ItemListedDataFields ==
    <<FlattenField("context", "Context"), Field("event_timestamp", "DateTime"),
      Field("base_price", "u256_fromstr_radix_10"), Field("expiration_date", "DateTime"),
      Field("is_private", "bool"), Field("listing_date", "DateTime"),
      OptionField("listing_type", "ListingType"), Field("maker", "address_fromjson"),
      Field("payment_token", "PaymentToken"), Field("quantity", "u64"),
      DefaultField("taker", "address_fromjson_opt")>>

\* A faulty ItemSoldData whose taker is declared as in ItemListedData.
ItemSoldDataFields_optional_taker ==
    <<FlattenField("context", "Context"), Field("event_timestamp", "DateTime"),
      Field("closing_date", "DateTime"), Field("is_private", "bool"),
      OptionField("listing_type", "ListingType"), Field("maker", "address_fromjson"),
      Field("payment_token", "PaymentToken"), Field("quantity", "u64"),
      Field("sale_price", "u256_fromstr_radix_10"),
      DefaultField("taker", "address_fromjson_opt"), Field("transaction", "Transaction")>>

ItemSoldDataFields ==
    <<FlattenField("context", "Context"), Field("event_timestamp", "DateTime"),
      Field("closing_date", "DateTime"), Field("is_private", "bool"),
      OptionField("listing_type", "ListingType"), Field("maker", "address_fromjson"),
      Field("payment_token", "PaymentToken"), Field("quantity", "u64"),
      Field("sale_price", "u256_fromstr_radix_10"), Field("taker", "address_fromjson"),
      Field("transaction", "Transaction")>>

ItemTransferredDataFields ==
    <<FlattenField("context", "Context"), Field("event_timestamp", "DateTime"),
      Field("transaction", "Transaction"), Field("from_account", "address_fromjson"),
      Field("to_account", "address_fromjson"), Field("quantity", "u64")>>

ItemMetadataUpdatedDataFields ==
    <<FlattenField("context", "Context"), OptionField("name", "String"),
      OptionField("description", "String"), OptionField("image_preview_url", "Url"),
      OptionField("animation_url", "Url"), OptionField("background_color", "String"),
      OptionField("metadata_url", "Url"), DefaultField("traits", "VecValue")>>

ItemCancelledDataFields ==
    <<FlattenField("context", "Context"), Field("event_timestamp", "DateTime"),
      OptionField("listing_type", "ListingType"), Field("payment_token", "PaymentToken"),
      Field("quantity", "u64"), Field("transaction", "Transaction")>>

ItemReceivedOfferDataFields ==
    <<FlattenField("context", "Context"), Field("event_timestamp", "DateTime"),
      Field("base_price", "u256_fromstr_radix_10"), Field("created_date", "DateTime"),
      Field("expiration_date", "DateTime"), Field("maker", "address_fromjson"),
      Field("payment_token", "PaymentToken"), Field("quantity", "u64"),
      DefaultField("taker", "address_fromjson_opt")>>

ItemReceivedBidDataFields ==
    <<FlattenField("context", "Context"), Field("event_timestamp", "DateTime"),
      Field("base_price", "u256_fromstr_radix_10"), Field("created_date", "DateTime"),
      Field("expiration_date", "DateTime"), Field("maker", "address_fromjson"),
      Field("payment_token", "PaymentToken"), Field("quantity", "u64"),
      DefaultField("taker", "address_fromjson_opt")>>

AddressInnerFields == <<Field("address", "Address")>>

TransactionFields == <<Field("hash", "H256"), Field("timestamp", "DateTime")>>

PaymentTokenFields ==
    <<Field("address", "Address"), Field("decimals", "u64"),
      Field("eth_price", "f64_fromstring"), Field("name", "String"),
      Field("symbol", "String"), Field("usd_price", "f64_fromstring")>>

\* event_schemas.rs: Context, Item, Metadata and ItemMetadataUpdatedData.
\* Its Collection wraps Inner { slug } as the one of schema.rs does; its
\* URLs are plain strings and its traits carry no serde(default).
event_schemas_ContextFields ==
    <<Field("collection", "Collection"), Field("item", "event_schemas_Item")>>

event_schemas_ItemFields ==
    <<Field("nft_id", "event_schemas_NftId"), Field("permalink", "String"),
      Field("chain", "Chain"), Field("metadata", "event_schemas_Metadata")>>

event_schemas_MetadataFields ==
    <<Field("name", "String"), OptionField("description", "String"),
      OptionField("image_url", "String"), OptionField("animation_url", "String"),
      Field("metadata_url", "String")>>

event_schemas_ItemMetadataUpdatedDataFields ==
    <<FlattenField("context", "event_schemas_Context"), Field("name", "String"),
      OptionField("description", "String"), OptionField("image_preview_url", "String"),
      OptionField("animation_url", "String"), Field("background_color", "String"),
      Field("metadata_url", "String"), Field("traits", "VecValue")>>

StructTypes ==
    {"StreamEvent", "Context", "Item", "Metadata", "ItemListedData", "ItemSoldData",
     "ItemTransferredData", "ItemMetadataUpdatedData", "ItemCancelledData",
     "ItemReceivedOfferData", "ItemReceivedBidData", "Transaction", "PaymentToken",
     "event_schemas_Context", "event_schemas_Item", "event_schemas_Metadata",
     "event_schemas_ItemMetadataUpdatedData"}

FieldsOf(ty) ==
    CASE ty = "StreamEvent" -> StreamEventFields
      [] ty = "Context" -> ContextFields
      [] ty = "Item" -> ItemFields
      [] ty = "Metadata" -> MetadataFields
      [] ty = "ItemListedData" -> ItemListedDataFields
      [] ty = "ItemSoldData" -> ItemSoldDataFields
      [] ty = "ItemTransferredData" -> ItemTransferredDataFields
      [] ty = "ItemMetadataUpdatedData" -> ItemMetadataUpdatedDataFields
      [] ty = "ItemCancelledData" -> ItemCancelledDataFields
      [] ty = "ItemReceivedOfferData" -> ItemReceivedOfferDataFields
      [] ty = "ItemReceivedBidData" -> ItemReceivedBidDataFields
      [] ty = "Transaction" -> TransactionFields
      [] ty = "PaymentToken" -> PaymentTokenFields
      [] ty = "event_schemas_Context" -> event_schemas_ContextFields
      [] ty = "event_schemas_Item" -> event_schemas_ItemFields
      [] ty = "event_schemas_Metadata" -> event_schemas_MetadataFields
      [] ty = "event_schemas_ItemMetadataUpdatedData" ->
            event_schemas_ItemMetadataUpdatedDataFields

\* Default::default() of a serde(default) field.
DefaultOf(ty) == IF ty = "VecValue" THEN <<>> ELSE None

(***************************************************************************)
(* Payload: tag = "event_type", content = "payload", snake_case names.     *)
(***************************************************************************)
Txt_item_listed == <<"i", "t", "e", "m", "_", "l", "i", "s", "t", "e", "d">>

Txt_item_sold == <<"i", "t", "e", "m", "_", "s", "o", "l", "d">>

Txt_item_transferred == <<"i", "t", "e", "m", "_", "t", "r", "a", "n", "s", "f", "e", "r", "r", "e", "d">>

Txt_item_metadata_updated == <<"i", "t", "e", "m", "_", "m", "e", "t", "a", "d", "a", "t", "a", "_", "u", "p", "d", "a", "t", "e", "d">>

Txt_item_cancelled == <<"i", "t", "e", "m", "_", "c", "a", "n", "c", "e", "l", "l", "e", "d">>

Txt_item_received_offer == <<"i", "t", "e", "m", "_", "r", "e", "c", "e", "i", "v", "e", "d", "_", "o", "f", "f", "e", "r">>

Txt_item_received_bid == <<"i", "t", "e", "m", "_", "r", "e", "c", "e", "i", "v", "e", "d", "_", "b", "i", "d">>

PayloadVariants ==
    <<[variant |-> "ItemListed", tag |-> Txt_item_listed, data |-> "ItemListedData"],
      [variant |-> "ItemSold", tag |-> Txt_item_sold, data |-> "ItemSoldData"],
      [variant |-> "ItemTransferred", tag |-> Txt_item_transferred,
       data |-> "ItemTransferredData"],
      [variant |-> "ItemMetadataUpdated", tag |-> Txt_item_metadata_updated,
       data |-> "ItemMetadataUpdatedData"],
      [variant |-> "ItemCancelled", tag |-> Txt_item_cancelled, data |-> "ItemCancelledData"],
      [variant |-> "ItemReceivedOffer", tag |-> Txt_item_received_offer,
       data |-> "ItemReceivedOfferData"],
      [variant |-> "ItemReceivedBid", tag |-> Txt_item_received_bid,
       data |-> "ItemReceivedBidData"]>>

\* The variant a tag names, as an index of PayloadVariants, or 0.
VariantOfTag(tag) ==
    IF \E i \in 1..Len(PayloadVariants) : PayloadVariants[i].tag = tag
    THEN CHOOSE i \in 1..Len(PayloadVariants) : PayloadVariants[i].tag = tag
    ELSE 0

VariantNamed(v) == CHOOSE i \in 1..Len(PayloadVariants) : PayloadVariants[i].variant = v

\* impl From<Payload> for Event.
Event_from(payload) ==
    CASE payload.variant = "ItemListed" -> "ItemListed"
      [] payload.variant = "ItemSold" -> "ItemSold"
      [] payload.variant = "ItemTransferred" -> "ItemTransferred"
      [] payload.variant = "ItemMetadataUpdated" -> "ItemMetadataUpdated"
      [] payload.variant = "ItemCancelled" -> "ItemCancelled"
      [] payload.variant = "ItemReceivedOffer" -> "ItemReceivedOffer"
      [] payload.variant = "ItemReceivedBid" -> "ItemReceivedBid"

(***************************************************************************)
(* Deserialize.  De(ty, j) reads the JSON value j as a value of type ty.   *)
(***************************************************************************)
RECURSIVE De(_, _)
RECURSIVE DeStruct(_, _)

\* The value of one field of the object j: a flattened field reads the
\* object itself; an Option takes null as None; a missing key gives what the
\* field's table entry says.
DeField(j, f) ==
    IF f.flatten THEN De(f.ty, j)
    ELSE IF f.name \in DOMAIN j.obj
    THEN IF ~f.opt THEN De(f.ty, j.obj[f.name])
         ELSE IF j.obj[f.name] = JNull THEN Ok(None)
         ELSE LET r == De(f.ty, j.obj[f.name]) IN IF r.ok THEN Ok(Some(r.val)) ELSE r
    ELSE CASE f.missing = "error" -> MissingField(f.name)
           [] f.missing = "none" -> Ok(None)
           [] f.missing = "default" -> Ok(DefaultOf(f.ty))

\* A derived Deserialize of a struct.  The keys are visited in the order of
\* the document, so any field whose value does not decode may be the error;
\* then the first missing field in the order of declaration; then the
\* flattened fields, which are read from the keys left over.  Keys that no
\* field names are ignored.
DeStruct(j, fields) ==
    IF Kind(j) # "obj" THEN Err("invalid type")
    ELSE LET idx == 1..Len(fields)
             r == <<>> @@ [i \in idx |-> DeField(j, fields[i])]
             own == {i \in idx : ~fields[i].flatten}
             bad == {i \in own : fields[i].name \in DOMAIN j.obj /\ ~r[i].ok}
             absent == {i \in own : fields[i].name \notin DOMAIN j.obj /\ ~r[i].ok}
             flat == {i \in idx : fields[i].flatten /\ ~r[i].ok}
         IN  IF bad # {} THEN ErrAny(UNION {r[i].errs : i \in bad})
             ELSE IF absent # {} THEN r[CHOOSE i \in absent : \A k \in absent : i <= k]
             ELSE IF flat # {} THEN r[CHOOSE i \in flat : \A k \in flat : i <= k]
             ELSE Ok([n \in {fields[i].name : i \in idx} |->
                        r[CHOOSE i \in idx : fields[i].name = n].val])

\* A faulty Payload that is untagged: the first variant whose record the
\* content decodes as, whatever the tag says.
Payload_deserialize_untagged(j) ==
    IF Kind(j) # "obj" THEN Err("invalid type")
    ELSE IF ~HasKey(j, "payload") THEN MissingField("payload")
    ELSE LET fits == {i \in 1..Len(PayloadVariants) :
                         De(PayloadVariants[i].data, j.obj.payload).ok}
         IN  IF fits = {} THEN Err("no variant matches")
             ELSE LET v == PayloadVariants[CHOOSE i \in fits : \A k \in fits : i <= k]
                  IN  Ok([variant |-> v.variant,
                          data |-> De(v.data, j.obj.payload).val])

\* Payload, adjacently tagged: the tag must be present and name a variant,
\* then the content must be present and decode as that variant's record.
Payload_deserialize(j) ==
    IF Kind(j) # "obj" THEN Err("invalid type")
    ELSE IF ~HasKey(j, "event_type") THEN MissingField("event_type")
    ELSE IF Kind(j.obj.event_type) # "str" THEN Err("invalid type")
    ELSE IF VariantOfTag(j.obj.event_type.str) = 0 THEN Err("unknown variant")
    ELSE IF ~HasKey(j, "payload") THEN MissingField("payload")
    ELSE LET v == PayloadVariants[VariantOfTag(j.obj.event_type.str)]
             d == De(v.data, j.obj.payload)
         IN  IF d.ok THEN Ok([variant |-> v.variant, data |-> d.val]) ELSE d

\* address_fromjson::deserialize: Inner { address }, unwrapped.
address_fromjson_deserialize(j) ==
    LET inner == DeStruct(j, AddressInnerFields)
    IN  IF inner.ok THEN Ok(inner.val.address) ELSE inner

\* address_fromjson_opt::deserialize: Option<Inner>, unwrapped.
address_fromjson_opt_deserialize(j) ==
    IF j = JNull THEN Ok(None)
    ELSE LET inner == DeStruct(j, AddressInnerFields)
         IN  IF inner.ok THEN Ok(Some(inner.val.address)) ELSE inner

\* impl Deserialize for schema::Collection: Inner { slug }, unwrapped.
Collection_deserialize(j) ==
    LET inner == DeStruct(j, CollectionInnerFields)
    IN  IF inner.ok THEN Ok(inner.val.slug) ELSE inner

(***************************************************************************)
(* protocol.rs and collection.rs: the Collection a client subscribes to.   *)
(***************************************************************************)
Txt_collection == <<"c", "o", "l", "l", "e", "c", "t", "i", "o", "n", ":">>

All == [variant |-> "All"]

Collection(slug) == [variant |-> "Collection", slug |-> slug]

\* impl Display for Collection: "collection:" and the slug, or "*" for All.
protocol_Collection_fmt(c) ==
    Txt_collection \o (IF c.variant = "Collection" THEN c.slug ELSE <<"*">>)

\* impl Serialize for Collection: to_string, written as a string.
protocol_Collection_serialize(c) == JStr(protocol_Collection_fmt(c))

\* impl Deserialize for Collection: the string without its prefix
\* "collection:" is All when it is "*" and is the slug otherwise.
protocol_Collection_deserialize(j) ==
    IF Kind(j) # "str" THEN Err("invalid type")
    ELSE LET s == StripPrefix(j.str, Txt_collection)
         IN  IF ~s.ok THEN Err("expected collection:name")
             ELSE IF s.val = <<"*">> THEN Ok(All)
             ELSE Ok(Collection(s.val))

\* collection.rs: the same impls, Deserialize on a borrowed string.
collection_Collection_serialize(c) == JStr(protocol_Collection_fmt(c))

collection_Collection_deserialize(j) == protocol_Collection_deserialize(j)

De(ty, j) ==
    CASE ty \in StructTypes -> DeStruct(j, FieldsOf(ty))
      [] ty = "Payload" -> Payload_deserialize(j)
      [] ty = "Collection" -> Collection_deserialize(j)
      [] ty = "protocol_Collection" -> protocol_Collection_deserialize(j)
      [] ty = "collection_Collection" -> collection_Collection_deserialize(j)
      [] ty = "NftId" -> NftId_deserialize(j)
      [] ty = "event_schemas_NftId" -> event_schemas_NftId_deserialize(j)
      [] ty = "Chain" -> Chain_deserialize(j)
      [] ty = "Chain_from_str" -> Chain_from_str(j.str)
      [] ty = "ListingType" -> ListingType_deserialize(j)
      [] ty = "address_fromjson" -> address_fromjson_deserialize(j)
      [] ty = "address_fromjson_opt" -> address_fromjson_opt_deserialize(j)
      [] ty = "Address" -> FixedHash_deserialize(j, AddressBytes)
      [] ty = "H256" -> FixedHash_deserialize(j, H256Bytes)
      [] ty = "u256_fromstr_radix_10" -> u256_fromstr_radix_10_deserialize(j)
      [] ty = "f64_fromstring" -> f64_fromstring_deserialize(j)
      [] ty = "DateTime" -> DateTime_deserialize(j)
      [] ty = "Url" -> Url_deserialize(j)
      [] ty = "String" -> String_deserialize(j)
      [] ty = "u64" -> u64_deserialize(j)
      [] ty = "bool" -> bool_deserialize(j)
      [] ty = "VecValue" -> VecValue_deserialize(j)

\* serde_json::from_value::<StreamEvent>.
StreamEvent_deserialize(j) == De("StreamEvent", j)

(***************************************************************************)
(* Serialize.  Ser(ty, x) writes the value x of type ty as a JSON value.   *)
(***************************************************************************)
RECURSIVE Ser(_, _)
RECURSIVE SerFields(_, _, _)

\* The entries of one field: an Option writes null for None; a flattened
\* field contributes the entries of its own object.
SerField(x, f) ==
    IF f.flatten THEN Ser(f.ty, x[f.name]).obj
    ELSE IF ~f.opt THEN (f.name :> Ser(f.ty, x[f.name]))
    ELSE IF x[f.name] = None THEN (f.name :> JNull)
    ELSE (f.name :> Ser(f.ty, x[f.name].val))

SerFields(x, fields, i) ==
    IF i > Len(fields) THEN <<>> ELSE SerField(x, fields[i]) @@ SerFields(x, fields, i + 1)

\* A derived Serialize of a struct: every field is written.
SerStruct(x, fields) == JObj(SerFields(x, fields, 1))

Payload_serialize(p) ==
    LET v == PayloadVariants[VariantNamed(p.variant)]
    IN  JObj([event_type |-> JStr(v.tag), payload |-> Ser(v.data, p.data)])

\* A faulty address_fromjson::serialize that writes the address bare.
address_fromjson_serialize_bare(a) == FixedHash_serialize(a)

address_fromjson_serialize(a) == SerStruct([address |-> a], AddressInnerFields)

address_fromjson_opt_serialize(o) ==
    IF o = None THEN JNull ELSE SerStruct([address |-> o.val], AddressInnerFields)

Collection_serialize(c) == SerStruct([slug |-> c], CollectionInnerFields)

Ser(ty, x) ==
    CASE ty \in StructTypes -> SerStruct(x, FieldsOf(ty))
      [] ty = "Payload" -> Payload_serialize(x)
      [] ty = "Collection" -> Collection_serialize(x)
      [] ty = "protocol_Collection" -> protocol_Collection_serialize(x)
      [] ty = "collection_Collection" -> collection_Collection_serialize(x)
      [] ty = "NftId" -> NftId_serialize(x)
      [] ty = "event_schemas_NftId" -> event_schemas_NftId_serialize(x)
      [] ty = "Chain" -> Chain_serialize(x)
      [] ty = "Chain_from_str" -> JStr(Chain_fmt(x))
      [] ty = "ListingType" -> ListingType_serialize(x)
      [] ty = "address_fromjson" -> address_fromjson_serialize(x)
      [] ty = "address_fromjson_opt" -> address_fromjson_opt_serialize(x)
      [] ty = "Address" -> FixedHash_serialize(x)
      [] ty = "H256" -> FixedHash_serialize(x)
      [] ty = "u256_fromstr_radix_10" -> u256_fromstr_radix_10_serialize(x)
      [] ty = "f64_fromstring" -> f64_fromstring_serialize(x)
      [] ty = "DateTime" -> DateTime_serialize(x)
      [] ty = "Url" -> Url_serialize(x)
      [] ty = "String" -> String_serialize(x)
      [] ty = "u64" -> u64_serialize(x)
      [] ty = "bool" -> bool_serialize(x)
      [] ty = "VecValue" -> VecValue_serialize(x)

\* serde_json::to_value(&StreamEvent).
StreamEvent_serialize(e) == Ser("StreamEvent", e)

(***************************************************************************)
(* Sample wire documents: one well-formed document for each event kind,    *)
(* in the form the encoder writes.                                         *)
(***************************************************************************)
Cycle(p, n) == [i \in 1..n |-> p[((i - 1) % Len(p)) + 1]]

AddrTextA == Txt_0x \o Cycle(<<"1", "2", "a", "b">>, 2 * AddressBytes)

AddrTextAMixed == Txt_0x \o Cycle(<<"1", "2", "A", "b">>, 2 * AddressBytes)

AddrTextB == Txt_0x \o Cycle(<<"c", "0", "f", "f", "e", "e", "0", "0">>, 2 * AddressBytes)

AddrTextZero == Txt_0x \o Cycle(<<"0">>, 2 * AddressBytes)

HashText == Txt_0x \o Cycle(<<"d", "e", "a", "d">>, 2 * H256Bytes)

TimeA == <<"2022-06-01T12:00:00", "Z">>

TimeB == <<"2022-06-02T08:30:00", "Z">>

UrlA == <<"https://", "opensea.io", "/a">>

UrlB == <<"https://", "opensea.io", "/b">>

WrappedAddress(text) == JObj([address |-> JStr(text)])

SampleNftIdText == Txt_ethereum \o <<"/">> \o AddrTextA \o <<"/">> \o <<"1", "2", "3">>

SampleItem ==
    JObj([nft_id |-> JStr(SampleNftIdText),
          permalink |-> JStr(UrlA),
          chain |-> JObj([name |-> JStr(Txt_ethereum)]),
          metadata |-> JObj([name |-> JStr(<<"n">>),
                             description |-> JNull,
                             image_url |-> JStr(UrlB),
                             animation_url |-> JNull,
                             metadata_url |-> JStr(UrlA)])])

SampleContext == [collection |-> JObj([slug |-> JStr(<<"w">>)]), item |-> SampleItem]

SamplePaymentToken ==
    JObj([address |-> JStr(AddrTextZero),
          decimals |-> JNum(<<"1", "8">>),
          eth_price |-> JStr(<<"1">>),
          name |-> JStr(<<"E">>),
          symbol |-> JStr(<<"E">>),
          usd_price |-> JStr(<<"1", ".", "5">>)])

SampleTransaction == JObj([hash |-> JStr(HashText), timestamp |-> JStr(TimeA)])

Price1e18 == <<"1">> \o Cycle(<<"0">>, 18)

SamplePayload(variant) ==
    CASE variant = "ItemListed" ->
            JObj(SampleContext @@
                 [event_timestamp |-> JStr(TimeA), base_price |-> JStr(Price1e18),
                  expiration_date |-> JStr(TimeB), is_private |-> JBool(FALSE),
                  listing_date |-> JStr(TimeA), listing_type |-> JStr(Txt_english),
                  maker |-> WrappedAddress(AddrTextA), payment_token |-> SamplePaymentToken,
                  quantity |-> JNum(<<"1">>), taker |-> JNull])
      [] variant = "ItemSold" ->
            JObj(SampleContext @@
                 [event_timestamp |-> JStr(TimeA), closing_date |-> JStr(TimeB),
                  is_private |-> JBool(FALSE), listing_type |-> JNull,
                  maker |-> WrappedAddress(AddrTextA), payment_token |-> SamplePaymentToken,
                  quantity |-> JNum(<<"1">>), sale_price |-> JStr(Price1e18),
                  taker |-> WrappedAddress(AddrTextB), transaction |-> SampleTransaction])
      [] variant = "ItemTransferred" ->
            JObj(SampleContext @@
                 [event_timestamp |-> JStr(TimeA), transaction |-> SampleTransaction,
                  from_account |-> WrappedAddress(AddrTextA),
                  to_account |-> WrappedAddress(AddrTextB), quantity |-> JNum(<<"1">>)])
      [] variant = "ItemMetadataUpdated" ->
            JObj(SampleContext @@
                 [name |-> JStr(<<"n">>), description |-> JNull,
                  image_preview_url |-> JStr(UrlB), animation_url |-> JNull,
                  background_color |-> JNull, metadata_url |-> JStr(UrlA),
                  traits |-> JArr(<<JObj([trait_type |-> JStr(<<"t">>), value |-> JNum(<<"7">>)]),
                                    JStr(<<"x">>)>>)])
      [] variant = "ItemCancelled" ->
            JObj(SampleContext @@
                 [event_timestamp |-> JStr(TimeA), listing_type |-> JStr(Txt_dutch),
                  payment_token |-> SamplePaymentToken, quantity |-> JNum(<<"1">>),
                  transaction |-> SampleTransaction])
      [] variant = "ItemReceivedOffer" ->
            JObj(SampleContext @@
                 [event_timestamp |-> JStr(TimeA), base_price |-> JStr(<<"7">>),
                  created_date |-> JStr(TimeA), expiration_date |-> JStr(TimeB),
                  maker |-> WrappedAddress(AddrTextA), payment_token |-> SamplePaymentToken,
                  quantity |-> JNum(<<"1">>), taker |-> WrappedAddress(AddrTextB)])
      [] variant = "ItemReceivedBid" ->
            JObj(SampleContext @@
                 [event_timestamp |-> JStr(TimeA), base_price |-> JStr(<<"0">>),
                  created_date |-> JStr(TimeA), expiration_date |-> JStr(TimeB),
                  maker |-> WrappedAddress(AddrTextA), payment_token |-> SamplePaymentToken,
                  quantity |-> JNum(<<"2">>), taker |-> JNull])

SampleDocument(variant) ==
    JObj([sent_at |-> JStr(TimeB),
          event_type |-> JStr(PayloadVariants[VariantNamed(variant)].tag),
          payload |-> SamplePayload(variant)])

(***************************************************************************)
(* Documents that differ from a sample in one place.  An edit puts a value *)
(* at a path of keys or removes the key there.                             *)
(***************************************************************************)
Absent == [absent |-> TRUE]

\* Whether the object that is to hold the edited key exists in j.
RECURSIVE HasParent(_, _)
HasParent(j, path) ==
    IF Kind(j) # "obj" THEN FALSE
    ELSE IF Len(path) = 1 THEN TRUE
    ELSE IF path[1] \notin DOMAIN j.obj THEN FALSE
    ELSE HasParent(j.obj[path[1]], Tail(path))

RECURSIVE HasPath(_, _)
HasPath(j, path) ==
    IF Kind(j) # "obj" THEN FALSE
    ELSE IF path[1] \notin DOMAIN j.obj THEN FALSE
    ELSE IF Len(path) = 1 THEN TRUE
    ELSE HasPath(j.obj[path[1]], Tail(path))

RECURSIVE ValueAt(_, _)
ValueAt(j, path) == IF Len(path) = 1 THEN j.obj[path[1]] ELSE ValueAt(j.obj[path[1]], Tail(path))

RECURSIVE PutAt(_, _, _)
PutAt(j, path, val) ==
    IF Len(path) > 1
    THEN JObj((path[1] :> PutAt(j.obj[path[1]], Tail(path), val)) @@ j.obj)
    ELSE IF val = Absent
    THEN JObj([k \in DOMAIN j.obj \ {path[1]} |-> j.obj[k]])
    ELSE JObj((path[1] :> val) @@ j.obj)

Edit(path, val) == [path |-> path, val |-> val, add |-> FALSE]

AddKey(path, val) == [path |-> path, val |-> val, add |-> TRUE]

\* An edit applies where it changes the document: the key is there, or the
\* edit adds a key the document does not have.
Applies(j, e) ==
    IF ~HasParent(j, e.path) THEN FALSE
    ELSE IF e.add THEN ~HasPath(j, e.path)
    ELSE IF ~HasPath(j, e.path) THEN FALSE
    ELSE ValueAt(j, e.path) # e.val

Apply(j, e) == PutAt(j, e.path, e.val)

Txt_item_burned == <<"i", "t", "e", "m", "_", "b", "u", "r", "n", "e", "d">>

Txt_ItemListed == <<"I", "t", "e", "m", "L", "i", "s", "t", "e", "d">>

Txt_English == <<"E", "n", "g", "l", "i", "s", "h">>

Txt_polygon == <<"p", "o", "l", "y", "g", "o", "n">>

U256MaxText ==
    <<"1", "1", "5", "7", "9", "2", "0", "8", "9", "2", "3", "7", "3", "1", "6", "1", "9", "5", "4", "2", "3", "5", "7", "0", "9", "8", "5", "0", "0", "8", "6", "8", "7", "9", "0", "7", "8", "5", "3", "2", "6", "9", "9", "8", "4", "6", "6", "5", "6", "4", "0", "5", "6", "4", "0", "3", "9", "4", "5", "7", "5", "8", "4", "0", "0", "7", "9", "1", "3", "1", "2", "9", "6", "3", "9", "9", "3", "5">>

\* 2^256, one above the largest value.
U256OverText ==
    <<"1", "1", "5", "7", "9", "2", "0", "8", "9", "2", "3", "7", "3", "1", "6", "1", "9", "5", "4", "2", "3", "5", "7", "0", "9", "8", "5", "0", "0", "8", "6", "8", "7", "9", "0", "7", "8", "5", "3", "2", "6", "9", "9", "8", "4", "6", "6", "5", "6", "4", "0", "5", "6", "4", "0", "3", "9", "4", "5", "7", "5", "8", "4", "0", "0", "7", "9", "1", "3", "1", "2", "9", "6", "3", "9", "9", "3", "6">>

\* 2^64, the first value beyond 64 bits.
Text2Pow64 == <<"1", "8", "4", "4", "6", "7", "4", "4", "0", "7", "3", "7", "0", "9", "5", "5", "1", "6", "1", "6">>

\* 10^78, the smallest number of 79 digits.
Text79Digits == <<"1">> \o Cycle(<<"0">>, 78)

EnvelopeEdits ==
    {Edit(<<"sent_at">>, Absent), Edit(<<"sent_at">>, JStr(<<"yesterday">>)),
     Edit(<<"sent_at">>, JStr(<<"2022-06-02T08:30:00", ".000000", "+00:00">>)),
     Edit(<<"event_type">>, Absent), Edit(<<"event_type">>, JNull),
     Edit(<<"event_type">>, JStr(Txt_item_burned)),
     Edit(<<"event_type">>, JStr(Txt_ItemListed)),
     Edit(<<"payload">>, Absent), Edit(<<"payload">>, JNull),
     AddKey(<<"ref">>, JStr(<<"1">>)), AddKey(<<"topic">>, JObj([slug |-> JNull]))}

RetagEdits == {Edit(<<"event_type">>, JStr(PayloadVariants[i].tag)) : i \in 1..Len(PayloadVariants)}

OptionalFieldEdits ==
    {Edit(<<"payload", "taker">>, Absent), Edit(<<"payload", "taker">>, JNull),
     Edit(<<"payload", "taker">>, WrappedAddress(AddrTextAMixed)),
     Edit(<<"payload", "taker">>, WrappedAddress(<<"0", "x", "1">>)),
     Edit(<<"payload", "listing_type">>, Absent), Edit(<<"payload", "listing_type">>, JNull),
     Edit(<<"payload", "listing_type">>, JStr(Txt_english)),
     Edit(<<"payload", "listing_type">>, JStr(Txt_English)),
     Edit(<<"payload", "name">>, Absent), Edit(<<"payload", "name">>, JNull),
     Edit(<<"payload", "description">>, Absent),
     Edit(<<"payload", "description">>, JStr(<<"d">>)),
     Edit(<<"payload", "image_preview_url">>, Absent),
     Edit(<<"payload", "image_preview_url">>, JNull),
     Edit(<<"payload", "animation_url">>, Absent),
     Edit(<<"payload", "background_color">>, Absent),
     Edit(<<"payload", "metadata_url">>, Absent), Edit(<<"payload", "metadata_url">>, JNull),
     Edit(<<"payload", "traits">>, Absent), Edit(<<"payload", "traits">>, JNull),
     Edit(<<"payload", "traits">>, JArr(<<>>)),
     Edit(<<"payload", "item", "metadata", "name">>, Absent),
     Edit(<<"payload", "item", "metadata", "name">>, JNull),
     Edit(<<"payload", "item", "metadata", "description">>, Absent),
     Edit(<<"payload", "item", "metadata", "image_url">>, Absent),
     Edit(<<"payload", "item", "metadata", "image_url">>, JNull),
     Edit(<<"payload", "item", "metadata", "animation_url">>, Absent),
     Edit(<<"payload", "item", "metadata", "metadata_url">>, Absent),
     Edit(<<"payload", "item", "metadata", "metadata_url">>, JNull),
     AddKey(<<"payload", "order_hash">>, JStr(HashText))}

RequiredFieldEdits ==
    {Edit(<<"payload", "base_price">>, Absent),
     Edit(<<"payload", "base_price">>, JStr(<<"0", "0", "7">>)),
     Edit(<<"payload", "base_price">>, JStr(<<>>)),
     Edit(<<"payload", "base_price">>, JStr(<<"-", "1">>)),
     Edit(<<"payload", "base_price">>, JStr(U256MaxText)),
     Edit(<<"payload", "base_price">>, JStr(U256OverText)),
     Edit(<<"payload", "base_price">>, JNum(<<"5">>)),
     Edit(<<"payload", "sale_price">>, JStr(<<"1", ".", "5">>)),
     Edit(<<"payload", "sale_price">>, JStr(Text79Digits)),
     Edit(<<"payload", "sale_price">>, JStr(Text2Pow64)),
     Edit(<<"payload", "maker">>, Absent),
     Edit(<<"payload", "maker">>, WrappedAddress(AddrTextAMixed)),
     Edit(<<"payload", "maker">>, JNull),
     Edit(<<"payload", "payment_token", "eth_price">>, JNum(<<"1", ".", "5">>)),
     Edit(<<"payload", "payment_token", "eth_price">>, JStr(<<"1", ".", "0">>)),
     Edit(<<"payload", "payment_token", "usd_price">>, JStr(<<"x">>)),
     Edit(<<"payload", "quantity">>, JStr(<<"1">>)),
     Edit(<<"payload", "quantity">>, JNum(<<"-", "1">>)),
     Edit(<<"payload", "event_timestamp">>, Absent),
     Edit(<<"payload", "event_timestamp">>, JStr(<<"2022-06-01T12:00:00", "+00:00">>)),
     Edit(<<"payload", "transaction">>, Absent),
     Edit(<<"payload", "transaction", "hash">>, JStr(Txt_0x \o Cycle(<<"D", "E", "a", "d">>, 2 * H256Bytes))),
     Edit(<<"payload", "from_account">>, Absent),
     Edit(<<"payload", "created_date">>, Absent),
     Edit(<<"payload", "collection">>, Absent),
     Edit(<<"payload", "item", "metadata">>, Absent),
     Edit(<<"payload", "item", "permalink">>, JStr(<<"HTTPS://", "OpenSea.io", "/a">>)),
     Edit(<<"payload", "item", "permalink">>, JStr(<<"opensea">>)),
     Edit(<<"payload", "item", "chain">>, JObj([name |-> JStr(Txt_polygon)])),
     Edit(<<"payload", "item", "chain">>, JObj([name |-> JStr(Txt_matic)])),
     Edit(<<"payload", "item", "nft_id">>,
          JStr(Txt_matic \o <<"/">> \o Drop(AddrTextB, 2) \o <<"/">> \o Text2Pow64)),
     Edit(<<"payload", "item", "nft_id">>, JStr(Txt_polygon \o <<"/">> \o AddrTextA \o <<"/", "1">>)),
     Edit(<<"payload", "item", "nft_id">>, JStr(Txt_ethereum \o <<"/">> \o AddrTextA)),
     Edit(<<"payload", "item", "nft_id">>, JStr(Txt_ethereum \o <<"/">> \o AddrTextA \o <<"/">>))}

Edits == EnvelopeEdits \cup RetagEdits \cup OptionalFieldEdits \cup RequiredFieldEdits

(***************************************************************************)
(* Inputs of the field codecs.                                             *)
(***************************************************************************)
\* The longest text drawn over the alphabet of the decimal codec.
MaxLen == 3

\* The most parts, separated by '/', of a drawn NftId text.
MaxParts == 4

DecAlphabet == {"0", "1", "9", "-", "."}

TextsOver(alphabet, n) == UNION {[1..k -> alphabet] : k \in 0..n}

LongDecTexts ==
    {U256MaxText, U256OverText, Text2Pow64, Text79Digits, Price1e18,
     <<"0", "0">> \o U256MaxText}

U256Inputs ==
    {JStr(s) : s \in TextsOver(DecAlphabet, MaxLen) \cup LongDecTexts}
        \cup {JNum(<<"5">>), JNull}

FloatAlphabet == {"0", "1", "5", ".", "-", "x"}

\* A JSON number: an optional minus, digits without a leading zero unless
\* the integer part is that zero alone, and a fraction of at least one
\* digit.
IsJsonNumeral(s) ==
    LET body == IF s # <<>> /\ s[1] = "-" THEN Drop(s, 1) ELSE s
        dot == FirstIndexOf(body, ".")
        ip == IF dot = 0 THEN body ELSE Take(body, dot - 1)
        fp == IF dot = 0 THEN <<"0">> ELSE Drop(body, dot)
    IN  /\ ip # <<>> /\ IsDigits(ip)
        /\ fp # <<>> /\ IsDigits(fp)
        /\ Len(ip) = 1 \/ ip[1] # "0"

\* Prices on the wire: strings of up to MaxLen characters, the numbers among
\* them, and values of other kinds.
F64Inputs ==
    {JStr(s) : s \in TextsOver(FloatAlphabet, MaxLen)}
        \cup {JNum(s) : s \in {n \in TextsOver(FloatAlphabet, MaxLen) : IsJsonNumeral(n)}}
        \cup {JNull, JBool(TRUE)}

HexAlphabet == {"0", "9", "a", "F"}

\* Address texts: "0x" and 40 digits that repeat a pattern of up to MaxLen
\* digits of either case; texts of 19 and of 21 bytes, of an odd number of
\* digits, with a character that is no digit, and without digits.  Every
\* drawn text of 40 digits has the prefix.
AddressTexts ==
    {Txt_0x \o Cycle(p, 2 * AddressBytes) : p \in TextsOver(HexAlphabet, MaxLen) \ {<<>>}}
        \cup {AddrTextA, AddrTextAMixed, AddrTextB,
              Txt_0x \o Cycle(<<"a">>, 2 * AddressBytes - 2),
              Txt_0x \o Cycle(<<"a">>, 2 * AddressBytes + 2),
              Txt_0x \o Cycle(<<"a">>, 2 * AddressBytes - 1),
              Txt_0x \o Cycle(<<"g">>, 2 * AddressBytes),
              Txt_0x, <<>>, <<"a", "b">>}

\* Wrapped addresses on the wire, and values that are none.
AddressInputs ==
    {WrappedAddress(s) : s \in AddressTexts}
        \cup {JObj([address |-> JStr(AddrTextA), name |-> JStr(<<"n">>)]),
              JObj([address |-> JNull]), JObj([addr |-> JStr(AddrTextA)]),
              JStr(AddrTextA), JNull}

SlugAlphabet == {"a", "*", ":"}

\* Collections a client may build: All, and one of every slug of up to
\* MaxLen characters.
CollectionValues == {All} \cup {Collection(s) : s \in TextsOver(SlugAlphabet, MaxLen)}

\* Subscription strings: the encoder's own, and strings whose prefix is
\* missing, cut short, capitalised or not at the start; a value that is no
\* string.
CollectionInputs ==
    {JStr(Txt_collection \o s) : s \in TextsOver(SlugAlphabet, MaxLen)}
        \cup {JStr(s) : s \in TextsOver(SlugAlphabet, MaxLen)}
        \cup {JStr(Take(Txt_collection, 10) \o <<"a">>),
              JStr(<<"C">> \o Drop(Txt_collection, 1) \o <<"a">>),
              JStr(<<" ">> \o Txt_collection \o <<"a">>),
              JNull, JObj([slug |-> JStr(<<"a">>)])}

CollectionCodecs == {"protocol_Collection", "collection_Collection"}

\* Values a trait may be: an object, a text, null, a nested sequence.
TraitValues ==
    {JObj([trait_type |-> JStr(<<"t">>), value |-> JNum(<<"7">>)]), JStr(<<"x">>), JNull,
     JArr(<<JNum(<<"1">>)>>)}

\* The payload of an item_metadata_updated event that both modules decode.
TraitsPayload ==
    Apply(SamplePayload("ItemMetadataUpdated"), Edit(<<"background_color">>, JStr(<<"f">>)))

\* That payload with every sequence of up to MaxLen trait values at the key
\* traits, with a value there that is no sequence, and without the key.
TraitsInputs ==
    {Apply(TraitsPayload, Edit(<<"traits">>, v)) :
        v \in {JArr(a) : a \in TextsOver(TraitValues, MaxLen)}
                 \cup {JNull, JStr(<<"x">>), JObj([a |-> JNull]), Absent}}

\* Chain names: the seven wire names; each with a capital initial, with a
\* character after it, with a space before it and without its last
\* character; the variant name of Polygon; the empty text.
ChainTexts ==
    LET names == {Txt_ethereum, Txt_matic, Txt_klaytn, Txt_solana, Txt_rinkeby,
                  Txt_mumbai, Txt_baobab}
        Capital(c) ==
            CASE c = "e" -> "E" [] c = "m" -> "M" [] c = "k" -> "K" [] c = "s" -> "S"
              [] c = "r" -> "R" [] c = "b" -> "B"
    IN  names
            \cup {<<Capital(n[1])>> \o Drop(n, 1) : n \in names}
            \cup {n \o <<"x">> : n \in names}
            \cup {<<" ">> \o n : n \in names}
            \cup {Take(n, Len(n) - 1) : n \in names}
            \cup {Txt_polygon, <<>>}

ChainInputs == {JStr(s) : s \in ChainTexts}

ChainSegments == {Txt_ethereum, Txt_matic, Txt_baobab, Txt_polygon, <<>>}

AddressSegments ==
    {AddrTextA, Drop(AddrTextAMixed, 2), <<"0", "x", "a", "b", "c">>,
     <<"n", "o", "t", "h", "e", "x">>, AddrTextB \o <<"0", "0">>}

IdSegments == {<<"1">>, <<"0", "0", "7">>, <<>>, <<"-", "1">>, Text2Pow64, U256MaxText, U256OverText}

TailSegments == {<<"1">>, <<>>}

SegmentsAt(i) ==
    CASE i = 1 -> ChainSegments
      [] i = 2 -> AddressSegments
      [] i = 3 -> IdSegments
      [] OTHER -> TailSegments

RECURSIVE Join(_, _)
Join(parts, sep) ==
    IF Len(parts) = 1 THEN parts[1]
    ELSE parts[1] \o <<sep>> \o Join(Tail(parts), sep)

\* The lists of k segments, the i-th drawn from SegmentsAt(i).
RECURSIVE PartListsOf(_)
PartListsOf(k) ==
    IF k = 0 THEN {<<>>}
    ELSE {Append(p, s) : p \in PartListsOf(k - 1), s \in SegmentsAt(k)}

PartLists == UNION {PartListsOf(k) : k \in 1..MaxParts}

NftIdInputs == {JStr(Join(p, "/")) : p \in PartLists} \cup {JNum(<<"5">>), JNull}

(***************************************************************************)
(* The codec in use.  A caller decodes a value (input, decoded), may       *)
(* encode what it got (encoded), and may decode and encode that again      *)
(* (redecoded, reencoded).  A stream delivers a second document after a    *)
(* first (prevInput, prevDecoded).  The codec itself keeps nothing.        *)
(***************************************************************************)
VARIABLES codec, input, decoded, encoded, redecoded, reencoded, prevInput, prevDecoded

vars == <<codec, input, decoded, encoded, redecoded, reencoded, prevInput, prevDecoded>>

NoDoc == [none |-> TRUE]

Pending == [pending |-> TRUE]

NoEdit == [path |-> <<>>, val |-> Absent, add |-> FALSE]

Variants == {PayloadVariants[i].variant : i \in 1..Len(PayloadVariants)}

Init ==
    /\ codec = "idle"
    /\ input = NoDoc
    /\ decoded = Pending
    /\ encoded = NoDoc
    /\ redecoded = Pending
    /\ reencoded = NoDoc
    /\ prevInput = NoDoc
    /\ prevDecoded = Pending

\* A first call of ty's deserialize on the JSON value j.
Deserialize(ty, j) ==
    /\ codec = "idle"
    /\ codec' = ty
    /\ input' = j
    /\ decoded' = De(ty, j)
    /\ UNCHANGED <<encoded, redecoded, reencoded, prevInput, prevDecoded>>

\* serde_json::from_value::<StreamEvent> on a first document of the stream.
DecodeFirst(variant, e) ==
    /\ IF e = NoEdit THEN TRUE ELSE Applies(SampleDocument(variant), e)
    /\ Deserialize("StreamEvent",
                   IF e = NoEdit THEN SampleDocument(variant) ELSE Apply(SampleDocument(variant), e))

\* An edit that leaves out a key whose value is null, or adds a key.
DropsNullOrAdds(j, e) ==
    IF ~Applies(j, e) THEN FALSE
    ELSE IF e.add THEN TRUE
    ELSE IF e.val # Absent THEN FALSE
    ELSE ValueAt(j, e.path) = JNull

\* A caller builds a value v of type ty to encode, decoding nothing.
Construct(ty, v) ==
    /\ codec = "idle"
    /\ codec' = ty
    /\ decoded' = Ok(v)
    /\ UNCHANGED <<input, encoded, redecoded, reencoded, prevInput, prevDecoded>>

\* A faulty decoder that, once a document has failed, answers the next one
\* with the same error.
DecodeNext_keeps_error(e) ==
    /\ codec = "StreamEvent"
    /\ prevInput = NoDoc
    /\ encoded = NoDoc
    /\ DropsNullOrAdds(input, e)
    /\ prevInput' = input
    /\ prevDecoded' = decoded
    /\ input' = Apply(input, e)
    /\ decoded' = IF decoded.ok THEN StreamEvent_deserialize(input') ELSE decoded
    /\ UNCHANGED <<codec, encoded, redecoded, reencoded>>

\* serde_json::from_value::<StreamEvent> on the next document of the stream,
\* which is the one before with a null key left out or a key added.
DecodeNext(e) ==
    /\ codec = "StreamEvent"
    /\ prevInput = NoDoc
    /\ encoded = NoDoc
    /\ DropsNullOrAdds(input, e)
    /\ prevInput' = input
    /\ prevDecoded' = decoded
    /\ input' = Apply(input, e)
    /\ decoded' = StreamEvent_deserialize(input')
    /\ UNCHANGED <<codec, encoded, redecoded, reencoded>>

\* ty's serialize on the value decoded from a first document.
Serialize ==
    /\ decoded # Pending
    /\ decoded.ok
    /\ prevInput = NoDoc
    /\ encoded = NoDoc
    /\ encoded' = Ser(codec, decoded.val)
    /\ UNCHANGED <<codec, input, decoded, redecoded, reencoded, prevInput, prevDecoded>>

\* ty's deserialize on the value just encoded.
DeserializeEncoded ==
    /\ encoded # NoDoc
    /\ redecoded = Pending
    /\ redecoded' = De(codec, encoded)
    /\ UNCHANGED <<codec, input, decoded, encoded, reencoded, prevInput, prevDecoded>>

\* ty's serialize on the value decoded from the encoder's own output.
SerializeRedecoded ==
    /\ redecoded # Pending
    /\ redecoded.ok
    /\ reencoded = NoDoc
    /\ reencoded' = Ser(codec, redecoded.val)
    /\ UNCHANGED <<codec, input, decoded, encoded, redecoded, prevInput, prevDecoded>>

Next ==
    \/ \E variant \in Variants : \E e \in Edits \cup {NoEdit} : DecodeFirst(variant, e)
    \/ \E e \in Edits : DecodeNext(e)
    \/ \E j \in U256Inputs : Deserialize("u256_fromstr_radix_10", j)
    \/ \E j \in NftIdInputs : Deserialize("NftId", j)
    \/ \E j \in NftIdInputs : Deserialize("event_schemas_NftId", j)
    \/ \E j \in F64Inputs : Deserialize("f64_fromstring", j)
    \/ \E j \in AddressInputs : Deserialize("address_fromjson", j)
    \/ \E j \in ChainInputs : Deserialize("Chain_from_str", j)
    \/ \E ty \in CollectionCodecs : \E j \in CollectionInputs : Deserialize(ty, j)
    \/ \E ty \in CollectionCodecs : \E c \in CollectionValues : Construct(ty, c)
    \/ \E j \in TraitsInputs : Deserialize("ItemMetadataUpdatedData", j)
    \/ \E j \in TraitsInputs : Deserialize("event_schemas_ItemMetadataUpdatedData", j)
    \/ Serialize
    \/ DeserializeEncoded
    \/ SerializeRedecoded

Spec == Init /\ [][Next]_vars


(***************************************************************************)
(* Properties of the codec.                                                *)
(***************************************************************************)
\* An envelope has been decoded.
EnvelopeDecoded == codec = "StreamEvent" /\ decoded # Pending

SampleDocuments == {SampleDocument(variant) : variant \in Variants}

\* C1: for every typed event x, of each of the seven kinds, decoding the
\* JSON that encoding x produced yields x again: decode(encode(x)) = x.
C1_DecodeInvertsEncode ==
    (codec = "StreamEvent" /\ redecoded # Pending) => redecoded = Ok(decoded.val)

\* An item_sold event, its taker set, has gone through encode and decode.
C1_Witness ==
    /\ codec = "StreamEvent"
    /\ redecoded # Pending
    /\ redecoded.ok
    /\ redecoded.val.payload.variant = "ItemSold"
    /\ input = SampleDocument("ItemSold")

\* C2, as stated: every accepted document of an event kind is given back
\* unchanged by decode and encode: encode(decode(json)) = json.
C2_EncodeInvertsDecode ==
    (codec = "StreamEvent" /\ encoded # NoDoc) => encoded = input

\* C2, amended: a document in the form the encoder writes is given back
\* unchanged by decode and encode: so is every document the encoder has
\* produced, and so is each of the sample documents, which have every key
\* present, None as null and every text in its canonical spelling.
C2_CanonicalReencodes ==
    /\ (codec = "StreamEvent" /\ reencoded # NoDoc) => reencoded = encoded
    /\ (codec = "StreamEvent" /\ encoded # NoDoc /\ input \in SampleDocuments)
           => encoded = input

\* A sample document has been decoded, encoded, decoded and encoded again.
C2_Witness ==
    /\ codec = "StreamEvent"
    /\ input = SampleDocument("ItemListed")
    /\ reencoded # NoDoc
    /\ reencoded = input

\* The variant that a tag names, by the seven snake_case names.
NamedVariant(tag) ==
    CASE tag = Txt_item_listed -> "ItemListed"
      [] tag = Txt_item_sold -> "ItemSold"
      [] tag = Txt_item_transferred -> "ItemTransferred"
      [] tag = Txt_item_metadata_updated -> "ItemMetadataUpdated"
      [] tag = Txt_item_cancelled -> "ItemCancelled"
      [] tag = Txt_item_received_offer -> "ItemReceivedOffer"
      [] tag = Txt_item_received_bid -> "ItemReceivedBid"
      [] OTHER -> "none"

\* The keys a record of the variant cannot do without: those of its fields
\* that are neither an Option nor defaulted, and those of its context.
RequiredKeys(variant) ==
    LET fields == FieldsOf(PayloadVariants[VariantNamed(variant)].data)
    IN  {fields[i].name : i \in {k \in 1..Len(fields) :
                                    ~fields[k].flatten /\ fields[k].missing = "error"}}
            \cup {"collection", "item"}

\* C3: when an envelope decodes, the variant is the one its event_type
\* names and the payload has that kind's shape; with an event_type outside
\* the seven names, or a payload that lacks a key of the named kind,
\* decoding fails and gives no other variant.
C3_TagDecidesVariant ==
    (EnvelopeDecoded /\ decoded.ok) =>
        /\ HasKey(input, "event_type")
        /\ HasKey(input, "payload")
        /\ Kind(input.obj.event_type) = "str"
        /\ Kind(input.obj.payload) = "obj"
        /\ decoded.val.payload.variant = NamedVariant(input.obj.event_type.str)
        /\ RequiredKeys(decoded.val.payload.variant) \subseteq DOMAIN input.obj.payload.obj

\* The payload of a sale under the tag item_cancelled, whose shape it also
\* has, decodes as a cancellation.
C3_Witness ==
    /\ EnvelopeDecoded
    /\ decoded.ok
    /\ input = Apply(SampleDocument("ItemSold"), Edit(<<"event_type">>, JStr(Txt_item_cancelled)))
    /\ decoded.val.payload.variant = "ItemCancelled"

WithoutTaker(variant) == Apply(SampleDocument(variant), Edit(<<"payload", "taker">>, Absent))

\* C4: an item_sold document whose payload has no taker fails, with the
\* missing-field error for taker when that is its only defect; a payload
\* without taker is accepted, taker being None, for item_listed,
\* item_received_offer and item_received_bid.
C4_TakerRequiredWhenSold ==
    EnvelopeDecoded =>
        /\ (/\ HasKey(input, "event_type")
            /\ input.obj.event_type = JStr(Txt_item_sold)
            /\ HasKey(input, "payload")
            /\ ~HasKey(input.obj.payload, "taker")) => ~decoded.ok
        /\ input = WithoutTaker("ItemSold") => decoded = MissingField("taker")
        /\ \A variant \in {"ItemListed", "ItemReceivedOffer", "ItemReceivedBid"} :
               input = WithoutTaker(variant) =>
                   decoded.ok /\ decoded.val.payload.data.taker = None

\* The sale without taker has been refused for its missing taker.
C4_Witness ==
    /\ EnvelopeDecoded
    /\ input = WithoutTaker("ItemSold")
    /\ ~decoded.ok

EnvelopeKeys == {"sent_at", "event_type", "payload"}

\* Document b is document a with more top-level keys, none of them a key of
\* the envelope.
ExtendsWithUnknownKeys(a, b) ==
    IF Kind(a) # "obj" \/ Kind(b) # "obj" THEN FALSE
    ELSE /\ DOMAIN a.obj \subseteq DOMAIN b.obj
         /\ DOMAIN a.obj # DOMAIN b.obj
         /\ (DOMAIN b.obj \ DOMAIN a.obj) \cap EnvelopeKeys = {}
         /\ \A k \in DOMAIN a.obj : b.obj[k] = a.obj[k]

\* C5: an envelope without sent_at, event_type or payload fails; a document
\* with top-level keys added that the envelope does not know decodes as the
\* document without them does.
C5_EnvelopeKeys ==
    EnvelopeDecoded =>
        /\ (Kind(input) = "obj" /\ ~(EnvelopeKeys \subseteq DOMAIN input.obj)) => ~decoded.ok
        /\ ExtendsWithUnknownKeys(prevInput, input) => decoded = prevDecoded

\* A valid document was followed by the same document with an unknown key,
\* and decoded.
C5_Witness ==
    /\ EnvelopeDecoded
    /\ ExtendsWithUnknownKeys(prevInput, input)
    /\ "topic" \in DOMAIN input.obj
    /\ decoded.ok

DecimalDigits == {"0", "1", "2", "3", "4", "5", "6", "7", "8", "9"}

AllDecimalDigits(s) == \A i \in 1..Len(s) : s[i] \in DecimalDigits

\* A text of digits without its leading zeros; "0" when nothing is left.
StripZeros(s) == IF FirstNonZero(s) > Len(s) THEN <<"0">> ELSE Drop(s, FirstNonZero(s) - 1)

\* For texts of digits of one length: a denotes more than b.
DecimalGreater(a, b) ==
    \E i \in 1..Len(a) :
        /\ DigitValue(a[i]) > DigitValue(b[i])
        /\ \A k \in 1..(i - 1) : a[k] = b[k]

\* A text of digits that denotes more than 2^256 - 1.
ExceedsU256(s) ==
    \/ Len(StripZeros(s)) > Len(U256MaxText)
    \/ Len(StripZeros(s)) = Len(U256MaxText) /\ DecimalGreater(StripZeros(s), U256MaxText)

\* A decimal text of a number of 256 bits: digits only, at least one.
ValidDecimal(s) == s # <<>> /\ AllDecimalDigits(s) /\ ~ExceedsU256(s)

U256Decoded == codec = "u256_fromstr_radix_10" /\ decoded # Pending

\* C6: decoding a decimal-string integer gives an error for every string
\* that is empty, holds a character that is no digit, or denotes a number
\* above 2^256 - 1.
C6_RejectsBadDecimal ==
    (U256Decoded /\ Kind(input) = "str" /\ ~ValidDecimal(input.str)) => ~decoded.ok

\* The empty string has been decoded, as zero: alone, and as the base_price
\* of a listing.
C6_Witness ==
    \/ U256Decoded /\ input = JStr(<<>>) /\ decoded = Ok(U256Zero)
    \/ /\ EnvelopeDecoded
       /\ input = Apply(SampleDocument("ItemListed"), Edit(<<"payload", "base_price">>, JStr(<<>>)))
       /\ decoded.ok
       /\ decoded.val.payload.data.base_price = U256Zero

\* What holds of the code in place of C6: every string that is not empty
\* and holds a character that is no digit, or denotes a number above
\* 2^256 - 1, gives an error.
RejectsBadDecimalUnlessEmpty ==
    (U256Decoded /\ Kind(input) = "str" /\ input.str # <<>> /\ ~ValidDecimal(input.str))
        => ~decoded.ok

\* C7: the encoder writes every value as a JSON string of decimal digits
\* without leading zeros, and decoding that string gives the value back;
\* a string of digits with leading zeros decodes to the value of the string
\* without them; a JSON number is not taken for the value.
C7_CanonicalDecimal ==
    codec = "u256_fromstr_radix_10" =>
        /\ encoded # NoDoc =>
               /\ Kind(encoded) = "str"
               /\ encoded.str # <<>>
               /\ AllDecimalDigits(encoded.str)
               /\ Len(encoded.str) = 1 \/ encoded.str[1] # "0"
        /\ redecoded # Pending => redecoded = Ok(decoded.val)
        /\ (decoded # Pending /\ Kind(input) = "str" /\ ValidDecimal(input.str)) =>
               /\ decoded.ok
               /\ decoded = U256_from_dec_str(StripZeros(input.str))
               /\ encoded # NoDoc => encoded = JStr(StripZeros(input.str))
        /\ (decoded # Pending /\ Kind(input) = "num") => ~decoded.ok

\* The largest value, written with two leading zeros, has been decoded and
\* encoded without them, and decoded again.
C7_Witness ==
    /\ codec = "u256_fromstr_radix_10"
    /\ input = JStr(<<"0", "0">> \o U256MaxText)
    /\ encoded = JStr(U256MaxText)
    /\ redecoded # Pending
    /\ redecoded.ok

ChainNames ==
    {Txt_ethereum, Txt_matic, Txt_klaytn, Txt_solana, Txt_rinkeby, Txt_mumbai, Txt_baobab}

HexDigitChars ==
    DecimalDigits \cup {"a", "b", "c", "d", "e", "f", "A", "B", "C", "D", "E", "F"}

\* The text of 20 bytes in hexadecimal, with "0x" in front or without.
ValidAddressText(s) ==
    LET h == IF StartsWith(s, Txt_0x) THEN Drop(s, 2) ELSE s
    IN  Len(h) = 2 * AddressBytes /\ \A i \in 1..Len(h) : h[i] \in HexDigitChars

NftIdDecoded == codec = "NftId" /\ decoded # Pending

\* C8: an NftId string decodes exactly when it has three segments, the
\* first a chain's wire name, the second the hexadecimal text of 20 bytes,
\* the third a decimal integer of at most 256 bits; otherwise decoding
\* fails.
C8_AcceptsOnlyValidSegments ==
    (NftIdDecoded /\ Kind(input) = "str") =>
        (decoded.ok <=>
            LET parts == SplitN(input.str, 3, "/")
            IN  /\ Len(parts) = 3
                /\ parts[1] \in ChainNames
                /\ ValidAddressText(parts[2])
                /\ ValidDecimal(parts[3]))

\* An NftId whose third segment is empty has been decoded, its id zero.
C8_Witness ==
    /\ NftIdDecoded
    /\ input = JStr(Txt_ethereum \o <<"/">> \o AddrTextA \o <<"/">>)
    /\ decoded.ok
    /\ decoded.val.id = U256Zero

\* What holds of the code in place of C8: the third segment may also be
\* empty.
AcceptsValidOrEmptyId ==
    (NftIdDecoded /\ Kind(input) = "str") =>
        (decoded.ok <=>
            LET parts == SplitN(input.str, 3, "/")
            IN  /\ Len(parts) = 3
                /\ parts[1] \in ChainNames
                /\ ValidAddressText(parts[2])
                /\ parts[3] = <<>> \/ ValidDecimal(parts[3]))

\* C9: NftId encoding is the exact inverse of NftId decoding, in each of
\* the two modules that define NftId: decoding what the encoder wrote gives
\* the NftId back, with the same network, address and id.
C9_NftIdEncodeInvertsDecode ==
    (codec \in {"NftId", "event_schemas_NftId"} /\ redecoded # Pending)
        => redecoded = Ok(decoded.val)

\* The NftId of event_schemas.rs has been encoded, its address abridged,
\* and what was written does not decode.
C9_Witness ==
    /\ codec = "event_schemas_NftId"
    /\ input = JStr(Txt_ethereum \o <<"/">> \o AddrTextA \o <<"/", "1">>)
    /\ encoded = JStr(Txt_ethereum \o <<"/">> \o <<"0", "x", "1", "2", "a", "b", "...",
                                                  "1", "2", "a", "b">> \o <<"/", "1">>)
    /\ redecoded # Pending
    /\ ~redecoded.ok

\* What holds of the NftId of schema.rs, as C9 has it: the encoder writes
\* the chain's wire name, "0x" and 40 lowercase hexadecimal digits, and the
\* id as a decimal without leading zeros; decoding that gives the NftId
\* back; and what was written is written again identically.
SchemaNftIdEncodeInvertsDecode ==
    codec = "NftId" =>
        /\ encoded # NoDoc =>
               LET parts == SplitN(encoded.str, 3, "/")
               IN  /\ Len(parts) = 3
                   /\ parts[1] = Chain_fmt(decoded.val.network)
                   /\ StartsWith(parts[2], Txt_0x)
                   /\ Len(parts[2]) = 2 + 2 * AddressBytes
                   /\ \A i \in 3..Len(parts[2]) :
                          parts[2][i] \in HexDigitChars \ {"A", "B", "C", "D", "E", "F"}
                   /\ ValidDecimal(parts[3])
                   /\ parts[3] = StripZeros(parts[3])
        /\ redecoded # Pending => redecoded = Ok(decoded.val)
        /\ reencoded # NoDoc => reencoded = encoded

\* The optional fields of a payload, by variant.
OptionalPayloadKeys(variant) ==
    CASE variant = "ItemListed" -> {"listing_type", "taker"}
      [] variant \in {"ItemSold", "ItemCancelled"} -> {"listing_type"}
      [] variant \in {"ItemReceivedOffer", "ItemReceivedBid"} -> {"taker"}
      [] variant = "ItemMetadataUpdated" ->
             {"name", "description", "image_preview_url", "animation_url",
              "background_color", "metadata_url"}
      [] OTHER -> {}

MetadataKeys == {"name", "description", "image_url", "animation_url", "metadata_url"}

\* The document before had null at the path and this one has no key there.
NullLeftOut(path) ==
    IF ~HasPath(prevInput, path) THEN FALSE
    ELSE IF ValueAt(prevInput, path) # JNull THEN FALSE
    ELSE input = PutAt(prevInput, path, Absent)

\* C10: for every optional field, the document that has null at its key
\* and the document without the key decode alike, both of them when either
\* does, to the same event, in which the field is None: nothing stands in
\* for an absent listing_type.
C10_AbsentIsNull ==
    (EnvelopeDecoded /\ prevInput # NoDoc /\ (decoded.ok \/ prevDecoded.ok)) =>
        /\ \A k \in OptionalPayloadKeys(NamedVariant(input.obj.event_type.str)) :
               NullLeftOut(<<"payload", k>>) =>
                   /\ decoded = prevDecoded
                   /\ decoded.val.payload.data[k] = None
        /\ \A k \in MetadataKeys :
               NullLeftOut(<<"payload", "item", "metadata", k>>) =>
                   /\ decoded = prevDecoded
                   /\ decoded.val.payload.data.context.item.metadata[k] = None

\* A sale with listing_type null was followed by the same sale without
\* the key, and both decoded.
C10_Witness ==
    /\ EnvelopeDecoded
    /\ prevInput = SampleDocument("ItemSold")
    /\ NullLeftOut(<<"payload", "listing_type">>)
    /\ decoded.ok
    /\ prevDecoded.ok

\* A numeral that str::parse::<f64> reads, among the texts over
\* FloatAlphabet: an optional minus, digits and at most one point, with a
\* digit on at least one side of it.
ParsableFloat(s) ==
    LET body == IF s # <<>> /\ s[1] = "-" THEN Drop(s, 1) ELSE s
    IN  /\ \A i \in 1..Len(body) : body[i] \in DecimalDigits \cup {"."}
        /\ Cardinality({i \in 1..Len(body) : body[i] = "."}) <= 1
        /\ \E i \in 1..Len(body) : body[i] \in DecimalDigits

LowerOf(c) ==
    CASE c = "A" -> "a" [] c = "B" -> "b" [] c = "C" -> "c"
      [] c = "D" -> "d" [] c = "E" -> "e" [] c = "F" -> "f" [] OTHER -> c

Lowercase(s) == [i \in 1..Len(s) |-> LowerOf(s[i])]

\* The text at the key address of a wrapped address, or no text.
AddressTextOf(j) ==
    IF ~HasKey(j, "address") THEN <<"none">>
    ELSE IF Kind(j.obj.address) # "str" THEN <<"none">>
    ELSE j.obj.address.str

\* C12: a wrapped address decodes to 20 bytes when its text is "0x" and 40
\* hexadecimal digits of either case, and fails when the text does not
\* denote exactly 20 bytes; the encoder writes the object with "0x" and the
\* 40 digits in lowercase; decoding that gives the address back.
C12_WrappedAddress ==
    (codec = "address_fromjson" /\ decoded # Pending) =>
        /\ decoded.ok => ValidAddressText(AddressTextOf(input)) /\ Len(decoded.val) = AddressBytes
        /\ (ValidAddressText(AddressTextOf(input)) /\ StartsWith(AddressTextOf(input), Txt_0x))
               => decoded.ok
        /\ encoded # NoDoc =>
               /\ StartsWith(AddressTextOf(input), Txt_0x)
               /\ encoded = WrappedAddress(Lowercase(AddressTextOf(input)))
        /\ redecoded # Pending => redecoded = Ok(decoded.val)

\* An address given in capitals has been decoded, written in lowercase and
\* decoded again.
C12_Witness ==
    /\ codec = "address_fromjson"
    /\ input = WrappedAddress(Txt_0x \o Cycle(<<"F", "9">>, 2 * AddressBytes))
    /\ encoded = WrappedAddress(Txt_0x \o Cycle(<<"f", "9">>, 2 * AddressBytes))
    /\ redecoded # Pending
    /\ redecoded.ok

\* C13: from_str succeeds exactly on the seven wire names, matched whole
\* and with their case; to_string gives the name back, and from_str of
\* to_string gives the chain back.
C13_ChainNamesInverse ==
    (codec = "Chain_from_str" /\ decoded # Pending) =>
        /\ decoded.ok <=> input.str \in ChainNames
        /\ decoded.ok => decoded.val \in Chains
        /\ encoded # NoDoc => encoded = input
        /\ redecoded # Pending => redecoded = decoded
        /\ reencoded # NoDoc => reencoded = encoded

\* The name matic has been read as Polygon, written back as matic and read
\* as Polygon again.
C13_Witness ==
    /\ codec = "Chain_from_str"
    /\ input = JStr(Txt_matic)
    /\ decoded = Ok("Polygon")
    /\ encoded = JStr(Txt_matic)
    /\ redecoded = Ok("Polygon")

\* The traits a payload is to decode to: the values at the key traits in
\* their order, and no value when the key is absent.
ExpectedTraits(j) == IF HasKey(j, "traits") THEN j.obj.traits.arr ELSE <<>>

\* Whether a payload has a sequence at the key traits or has no such key.
SequenceOrAbsent(j) == IF HasKey(j, "traits") THEN Kind(j.obj.traits) = "arr" ELSE TRUE

TraitsDecoded(ty) == codec = ty /\ decoded # Pending /\ SequenceOrAbsent(input)

\* C14: the traits of an item_metadata_updated payload decode as the
\* values of the document in the same order, whatever they are, and as the
\* empty sequence when the key is absent; in schema.rs and in
\* event_schemas.rs.
C14_TraitsInOrder ==
    (TraitsDecoded("ItemMetadataUpdatedData")
        \/ TraitsDecoded("event_schemas_ItemMetadataUpdatedData")) =>
        /\ decoded.ok
        /\ decoded.val.traits = ExpectedTraits(input)

\* event_schemas.rs has been given a payload without the key traits and
\* reports the field as missing.
C14_Witness ==
    /\ codec = "event_schemas_ItemMetadataUpdatedData"
    /\ ~HasKey(input, "traits")
    /\ decoded = MissingField("traits")

\* In schema.rs the traits decode in order, and as the empty sequence when
\* the key is absent; a value that is no sequence is an error.
SchemaTraitsInOrder ==
    (codec = "ItemMetadataUpdatedData" /\ decoded # Pending) =>
        /\ decoded.ok <=> SequenceOrAbsent(input)
        /\ decoded.ok => decoded.val.traits = ExpectedTraits(input)

\* In event_schemas.rs the traits decode in order when the key holds a
\* sequence, and not otherwise.
EventSchemasTraitsInOrder ==
    (codec = "event_schemas_ItemMetadataUpdatedData" /\ decoded # Pending) =>
        /\ decoded.ok <=> (HasKey(input, "traits") /\ SequenceOrAbsent(input))
        /\ decoded.ok => decoded.val.traits = ExpectedTraits(input)

\* The errors a decoder returns as values: those of serde for the shape of
\* the document, those the impls of schema.rs build with Error::custom, and
\* those of the parsers they call.
DecodeErrorKinds ==
    {"missing field", "invalid type", "unknown variant", "no variant matches",
     "data did not match any variant of untagged enum StringFloat",
     "expected network", "invalid network", "expected address", "expected id",
     "expected collection:name",
     "unknown chain", "InvalidCharacter", "InvalidLength", "InvalidHexCharacter",
     "InvalidHexLength", "invalid hex character", "invalid length", "no prefix",
     "invalid float literal", "invalid date-time", "relative URL without a base"}

\* A result is a value, or one or more errors that are decode errors.
Returned(r) ==
    /\ r # Pending
    /\ IF r.ok THEN DOMAIN r = {"ok", "val"}
       ELSE /\ DOMAIN r = {"ok", "errs"}
            /\ r.errs # {}
            /\ \A e \in r.errs : e.kind \in DecodeErrorKinds

HasSlash(s) == \E i \in 1..Len(s) : s[i] = "/"

BeforeSlash(s) == IF HasSlash(s) THEN Take(s, FirstIndexOf(s, "/") - 1) ELSE s

AfterSlash(s) == Drop(s, FirstIndexOf(s, "/"))

Slashes(s) == Cardinality({i \in 1..Len(s) : s[i] = "/"})

KindsOf(r) == {e.kind : e \in r.errs}

\* C17: an NftId string fails with the error of its first bad segment in
\* the order chain, address, token id: an unknown chain gives the chain
\* error whatever follows; a known chain with a bad address gives the
\* address error; a known chain and a good address without a third segment
\* give the error of the missing segment.
C17_FirstBadSegment ==
    (NftIdDecoded /\ Kind(input) = "str") =>
        LET s == input.str
            chainOk == BeforeSlash(s) \in ChainNames
            addressOk ==
                IF HasSlash(s) THEN ValidAddressText(BeforeSlash(AfterSlash(s))) ELSE FALSE
        IN  /\ ~chainOk => decoded = Err("invalid network")
            /\ (chainOk /\ ~HasSlash(s)) => decoded = Err("expected address")
            /\ (chainOk /\ HasSlash(s) /\ ~addressOk) =>
                   /\ ~decoded.ok
                   /\ KindsOf(decoded) \subseteq {"InvalidHexCharacter", "InvalidHexLength"}
            /\ (chainOk /\ addressOk /\ Slashes(s) = 1) => decoded = Err("expected id")
            /\ (chainOk /\ addressOk /\ Slashes(s) > 1 /\ ~decoded.ok) =>
                   KindsOf(decoded) \subseteq {"InvalidCharacter", "InvalidLength"}

\* An unknown chain before an address that is no address either has been
\* answered with the error of the chain.
C17_Witness ==
    /\ codec = "NftId"
    /\ input = JStr(Txt_polygon \o <<"/", "0", "x", "a", "b", "c", "/", "1">>)
    /\ decoded = Err("invalid network")

\* C18: an NftId string is split at its first two '/' only: the token id
\* is read from the whole remainder, so a string with three or more '/' is
\* rejected, never decoded from a part of that remainder.
C18_SplitsAtFirstTwo ==
    (NftIdDecoded /\ Kind(input) = "str") =>
        LET s == input.str
            remainder == AfterSlash(AfterSlash(s))
        IN  /\ Slashes(s) >= 3 => ~decoded.ok
            /\ (Slashes(s) >= 3 /\ BeforeSlash(s) \in ChainNames
                    /\ ValidAddressText(BeforeSlash(AfterSlash(s)))) =>
                   KindsOf(decoded) \subseteq {"InvalidCharacter", "InvalidLength"}
            /\ decoded.ok =>
                   /\ Slashes(s) = 2
                   /\ Ok(decoded.val.id) = U256_from_dec_str(remainder)

\* A string whose remainder after the second '/' is "/1" has been rejected
\* for the '/' in its token id.
C18_Witness ==
    /\ codec = "NftId"
    /\ input = JStr(Txt_ethereum \o <<"/">> \o AddrTextA \o <<"/", "/", "1">>)
    /\ decoded = Err("InvalidCharacter")

\* A Collection built by the caller, not decoded, in one of the two modules.
CollectionBuilt == codec \in CollectionCodecs /\ input = NoDoc

\* The wire string of a Collection value.
WireOf(c) == JStr(Txt_collection \o (IF c = All THEN <<"*">> ELSE c.slug))

\* C19: a Collection survives its wire string: All is written as
\* "collection:*" and Collection(slug), for any slug, as "collection:" and
\* the slug, and decoding what was written gives the value back; a string
\* without the prefix "collection:" fails to decode.
C19_CollectionRoundTrip ==
    /\ (CollectionBuilt /\ encoded # NoDoc) => encoded = WireOf(decoded.val)
    /\ (CollectionBuilt /\ redecoded # Pending) => redecoded = decoded
    /\ (codec \in CollectionCodecs /\ input # NoDoc /\ Kind(input) = "str"
            /\ ~StartsWith(input.str, Txt_collection)) => ~decoded.ok

\* The collection whose slug is "*" has been written as "collection:*" and
\* read back as All.
C19_Witness ==
    /\ codec = "protocol_Collection"
    /\ input = NoDoc
    /\ decoded = Ok(Collection(<<"*">>))
    /\ encoded = JStr(Txt_collection \o <<"*">>)
    /\ redecoded = Ok(All)

\* A Collection survives its wire string unless its slug is "*"; a string
\* decodes exactly when it is a string with the prefix.
CollectionRoundTripUnlessStar ==
    /\ (CollectionBuilt /\ encoded # NoDoc) => encoded = WireOf(decoded.val)
    /\ (CollectionBuilt /\ redecoded # Pending /\ decoded.val # Collection(<<"*">>))
           => redecoded = decoded
    /\ (codec \in CollectionCodecs /\ input # NoDoc) =>
           (decoded.ok <=> (Kind(input) = "str" /\ StartsWith(input.str, Txt_collection)))
    /\ (codec \in CollectionCodecs /\ input # NoDoc /\ redecoded # Pending)
           => redecoded = decoded


=============================================================================
